---- MODULE Spec2Model ----
(***************************************************************************)
(* Model of the request-execution engine of go-shopify (goshopify.go):     *)
(* Client.createAndDoGetHeaders / Client.doGetHeaders, the error           *)
(* classifier CheckResponseError / wrapSpecificError and the client        *)
(* options.  One logical REST call is a sequence of steps: the prologue    *)
(* of doGetHeaders, then one step per iteration of its retry loop.  The    *)
(* server's answer to every attempt is an input of the step.               *)
(*                                                                         *)
(* GraphQLServiceOp.Query (graphql.go) runs on top of it: every round of   *)
(* Query is one logical POST, followed by the rest of the loop body.  The  *)
(* request builder (createAndDoGetHeaders, NewRequest), the suggested wait *)
(* of a GraphQL cost and the flattening of the "errors" field of an error  *)
(* body have specifications of their own over the same variables.          *)
(*                                                                         *)
(* Response bodies are delivered in full: a failure of ioutil.ReadAll on   *)
(* a response body is not modelled.                                        *)
(***************************************************************************)
EXTENDS Integers, Sequences, FiniteSets, TLC

\* ------------------------------------------------------------------ bounds
MaxRetries == 3
MaxBodyLen == 1
\* the costs and the throttle status of the cost check are 0 .. MaxCost
\* times CostUnit points
MaxCost == 4
\* the longest caller-supplied path, in tokens
MaxPathLen == 4
\* the longest array in the "errors" field of an error body
MaxElems == 2

\* ------------------------------------------------------- program constants
StatusOK == 200
StatusMultipleChoices == 300
StatusNotAcceptable == 406
StatusTooManyRequests == 429
StatusServiceUnavailable == 503
defaultApiVersion == "stable"
defaultApiPathPrefix == "admin"
UnstableApiVersion == "unstable"

\* ------------------------------------------------------------ input domains
\* retry counts given to WithRetry; 0 is the value without the option
RetryCounts == (0 - 1) .. MaxRetries
\* request bodies as byte sequences
BodyBytes == {123}
RequestBodies == UNION {[1 .. n -> BodyBytes] : n \in 0 .. MaxBodyLen}
\* whether the caller passes a result value v
ResultArgs == {"nil", "ptr"}
ErrorStatusCodes == {404, 406, 429, 500, 503}
SuccessStatusCodes == {200}
\* response bodies: empty, a JSON object, not JSON
ResponseBodies == {"", "{\"error\":\"e\"}", "<html>"}
\* Retry-After values as character sequences: absent, whole seconds, a
\* fraction, not a number.  The code parses the header of a 429 and of a
\* successful response only; the other responses take two of the values.
RetryAfterHeaders == {<<>>, <<"2">>, <<"2", ".", "5">>, <<"x">>}
RetryAfterHeadersOf(status) ==
    IF status = 429 THEN RetryAfterHeaders
    ELSE IF status = 200 THEN {<<>>, <<"2", ".", "5">>}
    ELSE {<<>>, <<"2">>}
CallLimitHeaders == {<<>>, <<"1", "/", "4", "0">>}
ApiVersionHeaders == {"", "2023-01", "2023-04"}
\* the call-limit and version headers of a successful response; the second
\* version comes without a call limit
SuccessHeaders ==
    {x \in CallLimitHeaders \X ApiVersionHeaders : x[2] = "2023-04" => x[1] = <<>>}
TransportErrors == {"connection refused", "timeout"}
\* the errors of NewRequest: of url.Parse, of query.Values, of json.Marshal
NewRequestErrors == {"invalid URL escape", "query: unsupported type",
                     "json: unsupported type"}
\* the versions given to WithVersion, as character sequences; <<>> in place
\* of <<version>> is a client constructed without the option
PinnedVersion == <<"2", "0", "2", "2", "-", "1", "0">>

Response(status, b, ra, cl, ver) ==
    [StatusCode |-> status, Body |-> b, RetryAfter |-> ra,
     CallLimit |-> cl, ApiVersion |-> ver]

\* the version and call-limit headers are read on the success path only;
\* error responses of the model carry neither
ErrorResponses ==
    UNION {{Response(s, b, ra, <<>>, "") :
               b \in ResponseBodies, ra \in RetryAfterHeadersOf(s)} :
           s \in ErrorStatusCodes}
SuccessResponses ==
    UNION {{Response(s, b, ra, x[1], x[2]) :
               b \in ResponseBodies, ra \in RetryAfterHeadersOf(s),
               x \in SuccessHeaders} :
           s \in SuccessStatusCodes}

NoResponse == Response(0, "", <<>>, <<>>, "")

\* ------------------------------------------------------------------ errors
\* every error value has the same fields; kind "nil" is the nil error
MkError(kind, status, message, retryAfter, b) ==
    [kind |-> kind, Status |-> status, Message |-> message,
     RetryAfter |-> retryAfter, Body |-> b, Errors |-> <<>>]
Nil == MkError("nil", 0, "", 0, "")
ResponseError(status, message) == MkError("ResponseError", status, message, 0, "")
ResponseDecodingError(b, message, status) ==
    MkError("ResponseDecodingError", status, message, 0, b)
RateLimitError(err, retryAfter) ==
    [MkError("RateLimitError", err.Status, err.Message, retryAfter, "")
        EXCEPT !.Errors = err.Errors]
\* an error of the http client or of the json decoder, passed on unchanged
PlainError(message) == MkError("error", 0, message, 0, "")

\* ----------------------------------------------------------- strconv, json
Digits == <<"0", "1", "2", "3", "4", "5", "6", "7", "8", "9">>
IsDigit(ch) == \E i \in 1 .. 10 : Digits[i] = ch
DigitValue(ch) == (CHOOSE i \in 1 .. 10 : Digits[i] = ch) - 1

RECURSIVE DigitsValue(_)
DigitsValue(s) ==
    IF s = <<>> THEN 0
    ELSE 10 * DigitsValue(SubSeq(s, 1, Len(s) - 1)) + DigitValue(s[Len(s)])

AllDigits(s) == \A i \in 1 .. Len(s) : IsDigit(s[i])

\* strconv.Atoi on an unsigned decimal; the value is 0 when err is set
Atoi(s) ==
    IF s # <<>> /\ AllDigits(s)
    THEN [n |-> DigitsValue(s), err |-> FALSE]
    ELSE [n |-> 0, err |-> TRUE]

\* strconv.ParseFloat on unsigned decimals "d", "d.d", "d.", ".d"; the value
\* is kept in thousandths and is 0 when err is set
ParseFloat(s) ==
    LET dots == {i \in 1 .. Len(s) : s[i] = "."}
        dot == IF dots = {} THEN Len(s) + 1 ELSE CHOOSE i \in dots : TRUE
        ip == SubSeq(s, 1, dot - 1)
        fp == SubSeq(s, dot + 1, Len(s))
        fp3 == SubSeq(fp \o <<"0", "0", "0">>, 1, 3)
    IN  IF /\ Cardinality(dots) <= 1
           /\ AllDigits(ip) /\ AllDigits(fp)
           /\ Len(ip) + Len(fp) > 0
        THEN [milli |-> 1000 * DigitsValue(ip) + DigitsValue(fp3), err |-> FALSE]
        ELSE [milli |-> 0, err |-> TRUE]

\* int(f) of a non-negative float: truncation
IntOfFloat(f) == f.milli \div 1000

\* strings.Split(s, "/")
RECURSIVE Split(_)
Split(s) ==
    LET slashes == {i \in 1 .. Len(s) : s[i] = "/"}
    IN  IF slashes = {} THEN <<s>>
        ELSE LET i == CHOOSE j \in slashes : \A k \in slashes : j <= k
             IN  <<SubSeq(s, 1, i - 1)>> \o Split(SubSeq(s, i + 1, Len(s)))

\* strings.Join
RECURSIVE Join(_, _)
Join(elems, sep) ==
    IF elems = <<>> THEN ""
    ELSE IF Len(elems) = 1 THEN elems[1]
         ELSE elems[1] \o sep \o Join(Tail(elems), sep)

\* a pointer that is nil, and a pointer to x
NilPtr == <<>>
Ptr(x) == <<x>>

\* ------------------------------------------------- GraphQL response bodies
graphQLErrorCodeThrottled == "THROTTLED"
\* a graphQLError: its message and its extensions, a pointer
graphQLError(message, extensions) == [Message |-> message, Extensions |-> extensions]
ThrottledError ==
    graphQLError("Throttled", Ptr([Code |-> graphQLErrorCodeThrottled]))
FieldError == graphQLError("Field 'x' doesn't exist", NilPtr)
AccessError == graphQLError("Access denied", Ptr([Code |-> "ACCESS_DENIED"]))
\* the error lists of the responses: none, one error, a throttled error
\* first, last, and between two others
GraphQLErrorLists ==
    {<<>>, <<ThrottledError>>, <<FieldError>>, <<FieldError, AccessError>>,
     <<ThrottledError, FieldError>>, <<FieldError, ThrottledError>>,
     <<FieldError, ThrottledError, AccessError>>}

\* a GraphQLCost; actual is a pointer
GraphQLCost(requested, actual, available, restoreRate) ==
    [RequestedQueryCost |-> requested, ActualQueryCost |-> actual,
     CurrentlyAvailable |-> available, RestoreRate |-> restoreRate]
\* the extensions of the responses: none, a cost that is covered, a cost
\* that takes 2 seconds to restore, a cost that takes 2.5 seconds
GraphQLExtensions ==
    {NilPtr,
     Ptr([Cost |-> GraphQLCost(10, Ptr(5), 100, 50)]),
     Ptr([Cost |-> GraphQLCost(250, Ptr(200), 100, 50)]),
     Ptr([Cost |-> GraphQLCost(150, NilPtr, 100, 20)])}

graphQLResponse(errors, extensions) == [Errors |-> errors, Extensions |-> extensions]
GraphQLResponses ==
    {graphQLResponse(e, x) : e \in GraphQLErrorLists, x \in GraphQLExtensions}

\* the JSON text of a response of the GraphQL endpoint
ErrorJSON(e) ==
    "{\"message\":\"" \o e.Message \o "\""
    \o (IF e.Extensions = NilPtr THEN ""
        ELSE ",\"extensions\":{\"code\":\"" \o e.Extensions[1].Code \o "\"}")
    \o "}"
CostJSON(c) ==
    "{\"requestedQueryCost\":" \o ToString(c.RequestedQueryCost)
    \o ",\"actualQueryCost\":"
    \o (IF c.ActualQueryCost = NilPtr THEN "null" ELSE ToString(c.ActualQueryCost[1]))
    \o ",\"throttleStatus\":{\"currentlyAvailable\":" \o ToString(c.CurrentlyAvailable)
    \o ",\"restoreRate\":" \o ToString(c.RestoreRate) \o "}}"
GraphQLJSON(g) ==
    "{\"data\":{}"
    \o (IF g.Errors = <<>> THEN ""
        ELSE ",\"errors\":["
             \o Join([i \in 1 .. Len(g.Errors) |-> ErrorJSON(g.Errors[i])], ",")
             \o "]")
    \o (IF g.Extensions = NilPtr THEN ""
        ELSE ",\"extensions\":{\"cost\":" \o CostJSON(g.Extensions[1].Cost) \o "}")
    \o "}"
GraphQLBodies == {GraphQLJSON(g) : g \in GraphQLResponses}

\* the bodies of the payouts endpoint: a list of payouts, an object without
\* the list
PayoutsBodies == {"{\"payouts\":[{\"id\":1},{\"id\":2}]}", "{}"}
\* the payouts endpoint answers 200 with a body that may not be JSON, or an
\* error status with an empty body or an error message
PayoutsEndpointResponses ==
    {Response(StatusOK, b, <<>>, <<>>, "") : b \in PayoutsBodies \cup {"<html>"}}
    \cup UNION {{Response(s, b, ra, <<>>, "") :
                   b \in {"", "{\"error\":\"e\"}"},
                   ra \in IF s = StatusTooManyRequests THEN {<<>>, <<"2">>} ELSE {<<>>}} :
               s \in ErrorStatusCodes}

\* the endpoint answers 200 with one of the bodies, or 429 or 503
GraphQLEndpointResponses ==
    {Response(StatusOK, b, <<>>, <<>>, "") : b \in GraphQLBodies}
    \cup {Response(StatusTooManyRequests, "", <<"2">>, <<>>, ""),
          Response(StatusServiceUnavailable, "", <<>>, <<>>, "")}

\* json.Unmarshal of a response body into a struct: the bodies that parse
JSONValid(b) ==
    b = "{\"error\":\"e\"}" \/ b \in GraphQLBodies \/ b \in PayoutsBodies
\* the graphQLResponse that every body of the GraphQL endpoint decodes into
GraphQLDecodings ==
    [b \in GraphQLBodies |-> CHOOSE g \in GraphQLResponses : GraphQLJSON(g) = b]
\* a body of the GraphQL endpoint decoded into a graphQLResponse
DecodeGraphQL(b) == GraphQLDecodings[b]
\* the "error" field of the parsed body
JSONErrorField(b) == IF b = "{\"error\":\"e\"}" THEN "e" ELSE ""
\* the message of the json error for a body that does not parse
JSONErrorMessage(b) ==
    IF b = "" THEN "EOF" ELSE "invalid character '<' looking for beginning of value"
StatusText(status) == IF status = StatusNotAcceptable THEN "Not Acceptable" ELSE ""

\* -------------------------------------------------------- error classifier
\* the wrapping with the header parsed as an integer
wrapSpecificErrorAtoi(r, err) ==
    IF err.Status = StatusTooManyRequests
    THEN RateLimitError(err, Atoi(r.RetryAfter).n)
    ELSE IF err.Status = StatusNotAcceptable
         THEN [err EXCEPT !.Message = StatusText(err.Status)]
         ELSE err

\* wrapSpecificError: 429 becomes a rate-limit error, 406 gets the status text
wrapSpecificError(r, err) ==
    IF err.Status = StatusTooManyRequests
    THEN RateLimitError(err, IntOfFloat(ParseFloat(r.RetryAfter)))
    ELSE IF err.Status = StatusNotAcceptable
         THEN [err EXCEPT !.Message = StatusText(err.Status)]
         ELSE err

\* the classifier taking a body that does not parse for an empty one
CheckResponseErrorLenient(r) ==
    IF StatusOK <= r.StatusCode /\ r.StatusCode < StatusMultipleChoices
    THEN Nil
    ELSE wrapSpecificError(r, ResponseError(r.StatusCode, JSONErrorField(r.Body)))

\* CheckResponseError for bodies without an "errors" field
CheckResponseError(r) ==
    IF StatusOK <= r.StatusCode /\ r.StatusCode < StatusMultipleChoices
    THEN Nil
    ELSE IF r.Body # "" /\ ~JSONValid(r.Body)
         THEN ResponseDecodingError(r.Body, JSONErrorMessage(r.Body), r.StatusCode)
         ELSE wrapSpecificError(r, ResponseError(r.StatusCode, JSONErrorField(r.Body)))

\* ------------------------------------------------------------ client state
VARIABLES
    cRetries,    \* c.retries, set by WithRetry
    attempts,    \* c.attempts
    apiVersion,  \* c.apiVersion
    RateLimits,  \* c.RateLimits
    pc,          \* "idle", "loop" (inside the retry loop of a call), "done"
    retries,     \* doGetHeaders: the local retry budget
    body,        \* doGetHeaders: the buffered copy of the request body
    reqBody,     \* req.Body: what is left to read of the body stream
    v,           \* doGetHeaders: "nil" when the caller passes no result value
    resp,        \* doGetHeaders: the response of the latest attempt
    respErr,     \* doGetHeaders: the classified error of the latest attempt
    ret,         \* what the call returned
    trace,       \* what the call did: the requests sent, the responses
                 \* received and the sleeps, in order
    pathPrefix,  \* c.pathPrefix, as the sequence of its segments
    token,       \* c.token
    password,    \* c.app.Password
    req,         \* NewRequest: the request built, or the error
    shopifyError,   \* CheckResponseError: the parsed body of an error response
    queryPc,        \* Query: "idle", "round" (about to post), "post", "done"
    queryAttempts,  \* Query: the local attempts
    queryRet,       \* Query: what it returned
    queryTrace,     \* Query: the rounds and the sleeps, in order
    payoutList,     \* PayoutServiceOp.ListWithPagination: where it is and
                    \* what it returned
    race,           \* the two goroutines that use the client at once
    errorText       \* what the latest err.Error() on Query's error returned

\* the state of the request builder, of the classifier and of Query
services == <<payoutList, race, errorText>>
others == <<pathPrefix, token, password, req, shopifyError, services>>
query == <<queryPc, queryAttempts, queryRet, queryTrace>>

vars == <<cRetries, attempts, apiVersion, RateLimits, pc, retries, body,
          reqBody, v, resp, respErr, ret, trace, pathPrefix, token, password,
          req, shopifyError, queryPc, queryAttempts, queryRet, queryTrace,
          payoutList, race, errorText>>

NoReturn == [returned |-> FALSE, headers |-> FALSE, err |-> Nil]
NoRequest == [built |-> FALSE, err |-> Nil, relPath |-> <<>>, path |-> <<>>, auth |-> {}]
\* a decoded JSON value of the "errors" field: nil, a string, an array of
\* strings, or an object whose keys map to arrays or strings
JSONValue(kind, str, elems, fields) ==
    [kind |-> kind, str |-> str, elems |-> elems, fields |-> fields]
JSONNil == JSONValue("nil", "", <<>>, <<>>)
JSONString(str) == JSONValue("string", str, <<>>, <<>>)
JSONArray(elems) == JSONValue("array", "", elems, <<>>)
\* fields is a sequence of pairs <<key, value>> in the order of the text
JSONObject(fields) == JSONValue("object", "", <<>>, fields)
NoShopifyError == [Error |-> "", Errors |-> JSONNil]
\* the payout service before a call; nil slices and nil pointers are <<>>
NoList == [pc |-> "idle", linkHeader |-> <<>>, payouts |-> <<>>,
           pagination |-> NilPtr, err |-> Nil]
Return(headers, err) == [returned |-> TRUE, headers |-> headers, err |-> err]

Event(ev, b, status, kind, secs) ==
    [ev |-> ev, body |-> b, status |-> status, kind |-> kind, secs |-> secs]
SendEvent(b) == Event("send", b, 0, "", 0)
RecvEvent(r, err) == Event("recv", <<>>, r.StatusCode, err.kind, 0)
\* time.Sleep(wait): the loop of doGetHeaders waits by the time package
SleepEvent(secs) == Event("sleep", <<>>, 0, "time.Sleep", secs)
\* the http client returned the error e instead of a response
FailEvent(e) == Event("fail", <<>>, 0, e, 0)
\* NewRequest returned the error e: there is no request to send
NoRequestEvent(e) == Event("norequest", <<>>, 0, e, 0)

\* WithRetry
WithRetry(n) == n

\* a string from its characters
RECURSIVE Concat(_)
Concat(chars) == IF chars = <<>> THEN "" ELSE Head(chars) \o Concat(Tail(chars))

\* the pattern without its end anchor: ^[0-9]{4}-[0-9]{2}
MatchStringUnanchored(chars) ==
    /\ Len(chars) >= 7
    /\ \A i \in {1, 2, 3, 4, 6, 7} : IsDigit(chars[i])
    /\ chars[5] = "-"
\* apiVersionRegex.MatchString: ^[0-9]{4}-[0-9]{2}$
MatchString(chars) ==
    /\ Len(chars) = 7
    /\ \A i \in {1, 2, 3, 4, 6, 7} : IsDigit(chars[i])
    /\ chars[5] = "-"

\* WithVersion: the version is stored as it is given; the prefix names the
\* version only when it is well-formed or "unstable"
WithVersion(chars) ==
    [apiVersion |-> Concat(chars),
     pathPrefix |-> IF Len(chars) > 0
                       /\ (MatchString(chars) \/ Concat(chars) = UnstableApiVersion)
                    THEN <<defaultApiPathPrefix, "api", Concat(chars)>>
                    ELSE <<defaultApiPathPrefix>>]

\* the fields NewClient sets before the options are applied
Defaults == [apiVersion |-> defaultApiVersion, pathPrefix |-> <<defaultApiPathPrefix>>]

\* NewClient with WithRetry(n) for an n of retryCounts, with WithVersion(o[1])
\* for an o of versionOptions that is not empty, with a token of tokens and
\* a password of passwords
NewClient(retryCounts, versionOptions, tokens, passwords) ==
    /\ cRetries \in {WithRetry(n) : n \in retryCounts}
    /\ \E o \in versionOptions :
          LET c == IF o = <<>> THEN Defaults ELSE WithVersion(o[1])
          IN  apiVersion = c.apiVersion /\ pathPrefix = c.pathPrefix
    /\ token \in tokens
    /\ password \in passwords
    /\ attempts = 0
    /\ RateLimits = [RequestCount |-> 0, BucketSize |-> 0, RetryAfterSeconds |-> 0,
                     GraphQLCost |-> NilPtr]

\* the two goroutines of the model of concurrent use
Goroutines == {"query", "get"}
\* a goroutine before its call: where it is, the value it loaded for the
\* increment, the requests it sent, the attempts local to Query, the budget
\* local to doGetHeaders, the response and the error of its latest attempt,
\* and whether the other goroutine wrote c.attempts during its call
NoGoroutine ==
    [pc |-> "idle", tmp |-> 0, own |-> 0, local |-> 0, retries |-> 0,
     resp |-> NoResponse, err |-> Nil, raced |-> FALSE]

\* no call was made yet
Idle ==
    /\ pc = "idle"
    /\ retries = 0
    /\ body = <<>>
    /\ reqBody = <<>>
    /\ v = "nil"
    /\ resp = NoResponse
    /\ respErr = Nil
    /\ ret = NoReturn
    /\ trace = <<>>
    /\ req = NoRequest
    /\ shopifyError = NoShopifyError
    /\ queryPc = "idle"
    /\ queryAttempts = 0
    /\ queryRet = NoReturn
    /\ queryTrace = <<>>
    /\ payoutList = NoList
    /\ race = [g \in Goroutines |-> NoGoroutine]
    /\ errorText = ""

\* NewClient followed by the options: WithRetry, or WithVersion with one
\* retry count
Init ==
    /\ \/ NewClient(RetryCounts, {<<>>}, {"token"}, {""})
       \/ NewClient({1}, {<<PinnedVersion>>}, {"token"}, {""})
    /\ Idle

\* ioutil.ReadAll of a stream: the bytes read and what is left of the stream
ReadAll(stream) == [data |-> stream, rest |-> <<>>]
\* logBody: reads the stream and puts a fresh stream of the same bytes back
logBody(stream) == ReadAll(stream).data

\* the budget of a call that goes on with what the call before it left
BudgetLeftAtEntry(configured, left) == left
\* retries := c.retries
BudgetAtEntry(configured, left) == configured

\* createAndDoGetHeaders up to the retry loop of doGetHeaders: the request is
\* built with the marshalled body js, the budget is copied, the attempt
\* counter reset, the request logged and its body buffered
Prologue(js, resource) ==
    /\ LET logged == logBody(js)
           read == ReadAll(logged)
       IN  /\ body' = read.data
           /\ reqBody' = read.rest
           /\ v' = resource
    /\ retries' = BudgetAtEntry(cRetries, retries)
    /\ attempts' = 0
    /\ pc' = "loop"
    /\ resp' = NoResponse
    /\ respErr' = Nil
    /\ ret' = NoReturn
    /\ trace' = <<>>
    /\ UNCHANGED <<cRetries, apiVersion, RateLimits>>

\* NewRequest's error returned after the counter was reset
ReturnNewRequestErrorAfterReset(e) ==
    /\ ret' = Return(FALSE, PlainError(e))
    /\ trace' = <<NoRequestEvent(e)>>
    /\ pc' = "done"
    /\ resp' = NoResponse
    /\ respErr' = Nil
    /\ attempts' = 0
    /\ UNCHANGED <<cRetries, apiVersion, RateLimits, retries, body, reqBody, v>>

\* createAndDoGetHeaders when NewRequest fails with e: the error is returned
\* and doGetHeaders is not entered
ReturnNewRequestError(e) ==
    /\ ret' = Return(FALSE, PlainError(e))
    /\ trace' = <<NoRequestEvent(e)>>
    /\ pc' = "done"
    /\ resp' = NoResponse
    /\ respErr' = Nil
    /\ UNCHANGED <<cRetries, attempts, apiVersion, RateLimits, retries, body,
                   reqBody, v>>

\* a logical REST call whose request cannot be built
createAndDoGetHeadersFails ==
    /\ pc # "loop"
    /\ \E e \in NewRequestErrors : ReturnNewRequestError(e)
    /\ UNCHANGED <<others, query>>

\* a logical REST call whose request could be built
doGetHeaders ==
    /\ pc # "loop"
    /\ \E js \in RequestBodies, resource \in ResultArgs : Prologue(js, resource)
    /\ UNCHANGED <<others, query>>

\* the stream is fresh for the first attempt only
ResetBodyFirstOnly(buffered, stream) == IF attempts = 0 THEN buffered ELSE stream
\* req.Body = ioutil.NopCloser(bytes.NewBuffer(body))
ResetBody(buffered, stream) == buffered

\* c.attempts++, the body stream is reset and c.Client.Do sends the request,
\* reading the stream to its end
Send ==
    /\ attempts' = attempts + 1
    /\ reqBody' = ReadAll(ResetBody(body, reqBody)).rest

Sent == ReadAll(ResetBody(body, reqBody)).data

\* the budget test with the bound off by one
BudgetExhaustedAtZero(n) == n <= 0
\* if retries <= 1
BudgetExhausted(n) == n <= 1
\* the type test also taking a 503 for a rate-limit error
IsRateLimitErrorOrUnavailable(err) ==
    err.kind = "RateLimitError" \/ err.Status = StatusServiceUnavailable
\* respErr.(RateLimitError)
IsRateLimitError(err) == err.kind = "RateLimitError"
\* the wait without the unit: nanoseconds taken for the seconds
WaitWithoutUnit(rateLimitErr) == rateLimitErr.RetryAfter \div 1000000000
\* time.Duration(rateLimitErr.RetryAfter) * time.Second, in seconds
Wait(rateLimitErr) == rateLimitErr.RetryAfter
\* the switch retrying every server error
StatusRetryServerErrors(status) == status >= 500
\* the switch on resp.StatusCode
StatusRetry(status) == status = StatusServiceUnavailable

\* what the server may answer: inside Query the request goes to the GraphQL
\* endpoint
ServerResponses ==
    IF queryPc = "post" THEN GraphQLEndpointResponses
    ELSE IF payoutList.pc = "call" THEN PayoutsEndpointResponses
         ELSE ErrorResponses \cup SuccessResponses

\* the http client fails and the loop goes round while budget is left
AttemptTransportErrorRetried ==
    /\ pc = "loop"
    /\ Send
    /\ \E e \in TransportErrors :
          /\ ret' = IF BudgetExhausted(retries) THEN Return(FALSE, PlainError(e)) ELSE ret
          /\ trace' = trace \o <<SendEvent(Sent), FailEvent(e)>>
    /\ resp' = NoResponse
    /\ respErr' = Nil
    /\ pc' = IF BudgetExhausted(retries) THEN "done" ELSE "loop"
    /\ retries' = IF BudgetExhausted(retries) THEN retries ELSE retries - 1
    /\ UNCHANGED <<cRetries, apiVersion, RateLimits, body, v>>
    /\ UNCHANGED <<others, query>>

\* the http client fails: the error is returned as it is
AttemptTransportError ==
    /\ pc = "loop"
    /\ Send
    /\ \E e \in TransportErrors :
          /\ ret' = Return(FALSE, PlainError(e))
          /\ trace' = trace \o <<SendEvent(Sent), FailEvent(e)>>
    /\ resp' = NoResponse
    /\ respErr' = Nil
    /\ pc' = "done"
    /\ UNCHANGED <<cRetries, apiVersion, RateLimits, retries, body, v>>
    /\ UNCHANGED <<others, query>>

\* the loop giving up with an error of its own when the budget is used up
RetryDecisionSynthetic(n, r, err) ==
    IF BudgetExhausted(n)
    THEN [next |-> "return", err |-> PlainError("max retries exceeded"),
          sleep |-> <<>>, retries |-> n]
    ELSE IF IsRateLimitError(err)
         THEN [next |-> "continue", err |-> Nil, sleep |-> <<Wait(err)>>,
               retries |-> n - 1]
         ELSE IF StatusRetry(r.StatusCode)
              THEN [next |-> "continue", err |-> Nil, sleep |-> <<>>,
                    retries |-> n - 1]
              ELSE [next |-> "return", err |-> err, sleep |-> <<>>, retries |-> n]

\* what the loop does with a classified error: return it, or sleep and go
\* round, or go round at once; sleep is a sequence of at most one wait
RetryDecision(n, r, err) ==
    IF BudgetExhausted(n)
    THEN [next |-> "return", err |-> err, sleep |-> <<>>, retries |-> n]
    ELSE IF IsRateLimitError(err)
         THEN [next |-> "continue", err |-> Nil, sleep |-> <<Wait(err)>>,
               retries |-> n - 1]
         ELSE IF StatusRetry(r.StatusCode)
              THEN [next |-> "continue", err |-> Nil, sleep |-> <<>>,
                    retries |-> n - 1]
              ELSE [next |-> "return", err |-> err, sleep |-> <<>>, retries |-> n]

\* an attempt answered by a response that CheckResponseError classifies as
\* an error
AttemptErrorResponse ==
    /\ pc = "loop"
    /\ Send
    /\ \E r \in ServerResponses :
          LET err == CheckResponseError(r)
              d == RetryDecision(retries, r, err)
          IN  /\ err # Nil
              /\ resp' = r
              /\ respErr' = err
              /\ retries' = d.retries
              /\ trace' = trace \o <<SendEvent(Sent), RecvEvent(r, err)>>
                                \o [i \in 1 .. Len(d.sleep) |-> SleepEvent(d.sleep[i])]
              /\ IF d.next = "return"
                 THEN pc' = "done" /\ ret' = Return(FALSE, d.err)
                 ELSE pc' = "loop" /\ ret' = ret
    /\ UNCHANGED <<cRetries, apiVersion, RateLimits, body, v>>
    /\ UNCHANGED <<others, query>>

\* json.NewDecoder(resp.Body).Decode(&v)
Decode(b) == IF JSONValid(b) THEN Nil ELSE PlainError(JSONErrorMessage(b))

\* the rate-limit state that keeps the old retry-after when the response
\* has no Retry-After header
UpdateRateLimitsKeepRetryAfter(rl, r) ==
    LET s == Split(r.CallLimit)
        counted == IF Len(s) = 2
                   THEN [rl EXCEPT !.RequestCount = Atoi(s[1]).n,
                                   !.BucketSize = Atoi(s[2]).n]
                   ELSE rl
    IN  IF r.RetryAfter = <<>> THEN counted
        ELSE [counted EXCEPT !.RetryAfterSeconds = ParseFloat(r.RetryAfter).milli]

\* the rate-limit state after a response's headers were read
UpdateRateLimits(rl, r) ==
    LET s == Split(r.CallLimit)
        counted == IF Len(s) = 2
                   THEN [rl EXCEPT !.RequestCount = Atoi(s[1]).n,
                                   !.BucketSize = Atoi(s[2]).n]
                   ELSE rl
    IN  [counted EXCEPT !.RetryAfterSeconds = ParseFloat(r.RetryAfter).milli]

\* the latch that takes the version of every response that carries one
LatchVersionAlways(current, r) ==
    IF r.ApiVersion # "" THEN r.ApiVersion ELSE current
\* the version latch: the version header is taken while the client still
\* has the default version
LatchVersion(current, r) ==
    IF current = defaultApiVersion /\ r.ApiVersion # "" THEN r.ApiVersion ELSE current

\* an attempt answered by a response without error: the loop is left, the
\* version latched, the body decoded and the rate-limit state updated
AttemptSuccess ==
    /\ pc = "loop"
    /\ Send
    /\ \E r \in ServerResponses :
          LET decodeErr == IF v # "nil" THEN Decode(r.Body) ELSE Nil
          IN  /\ CheckResponseError(r) = Nil
              /\ resp' = r
              /\ respErr' = Nil
              /\ trace' = trace \o <<SendEvent(Sent), RecvEvent(r, Nil)>>
              /\ apiVersion' = LatchVersion(apiVersion, r)
              /\ IF decodeErr # Nil
                 THEN /\ ret' = Return(FALSE, decodeErr)
                      /\ RateLimits' = RateLimits
                 ELSE /\ ret' = Return(TRUE, Nil)
                      /\ RateLimits' = UpdateRateLimits(RateLimits, r)
    /\ pc' = "done"
    /\ UNCHANGED <<cRetries, retries, body, v>>
    /\ UNCHANGED <<others, query>>

Attempt == AttemptTransportError \/ AttemptErrorResponse \/ AttemptSuccess

Next ==
    \/ doGetHeaders
    \/ createAndDoGetHeadersFails
    \/ AttemptTransportError
    \/ AttemptErrorResponse
    \/ AttemptSuccess

Spec == Init /\ [][Next]_vars

\* one logical call on a freshly constructed client; a call that is inside
\* the loop goes on, for the http client answers every request with a
\* response or with an error (it has a timeout)
FirstCall == pc = "idle" /\ doGetHeaders
NextCall ==
    FirstCall \/ AttemptTransportError \/ AttemptErrorResponse \/ AttemptSuccess
CallSpec == Init /\ [][NextCall]_vars /\ WF_vars(Attempt)

\* the requests the call has sent
Events(ev) == {i \in DOMAIN trace : trace[i].ev = ev}
Sends == Cardinality(Events("send"))

\* ------------------------------------------------------------ GraphQL Query
\* the suggested wait computed from the requested cost even when the actual
\* cost is known
RetryAfterSecondsOfRequested(c) ==
    LET diff == c.CurrentlyAvailable - c.RequestedQueryCost
    IN  IF diff < 0 THEN ((0 - diff) * 1000) \div c.RestoreRate ELSE 0

\* GraphQLCost.RetryAfterSeconds, in thousandths of a second; the restore
\* rate is positive
GraphQLCostRetryAfterSeconds(c) ==
    LET diff == IF c.ActualQueryCost # NilPtr
                THEN c.CurrentlyAvailable - c.ActualQueryCost[1]
                ELSE c.CurrentlyAvailable - c.RequestedQueryCost
    IN  IF diff < 0 THEN ((0 - diff) * 1000) \div c.RestoreRate ELSE 0

\* Query: the suggested wait ra of the extensions, 0 without extensions
SuggestedWait(extensions) ==
    IF extensions # NilPtr THEN GraphQLCostRetryAfterSeconds(extensions[1].Cost) ELSE 0
\* Query: the rate-limit state takes the cost and the suggested wait
UpdateGraphQLCost(rl, extensions) ==
    IF extensions # NilPtr
    THEN [rl EXCEPT !.GraphQLCost = Ptr(extensions[1].Cost),
                    !.RetryAfterSeconds = SuggestedWait(extensions)]
    ELSE rl

\* the count of the last round alone
AttemptsOfLastRound(local, counter) == counter
\* attempts += s.client.attempts
AccumulatedAttempts(local, counter) == local + counter

\* the test that lets a round more through
LimitPassed(total, limit) == total > limit
\* if attempts >= s.client.retries
LimitReached(total, limit) == total >= limit

\* the loop over gr.Errors finds a throttled error
HasThrottled(errors) ==
    \E i \in DOMAIN errors :
        /\ errors[i].Extensions # NilPtr
        /\ errors[i].Extensions[1].Code = graphQLErrorCodeThrottled
\* the first throttled error of the list
FirstThrottled(errors) ==
    errors[CHOOSE i \in DOMAIN errors :
              /\ errors[i].Extensions # NilPtr
              /\ errors[i].Extensions[1].Code = graphQLErrorCodeThrottled
              /\ \A j \in 1 .. i - 1 :
                    \/ errors[j].Extensions = NilPtr
                    \/ errors[j].Extensions[1].Code # graphQLErrorCodeThrottled]

\* the messages gathered last first
MessagesReversed(errors) ==
    [i \in 1 .. Len(errors) |-> errors[Len(errors) + 1 - i].Message]
\* re.Errors = append(re.Errors, err.Message) for every error of the list
Messages(errors) == [i \in 1 .. Len(errors) |-> errors[i].Message]

\* ResponseError{Status: 200} with the messages
GraphQLResponseError(errors) ==
    [ResponseError(StatusOK, "") EXCEPT !.Errors = Messages(errors)]
\* int(ra), and time.Duration(ra) * time.Second in seconds
WholeSeconds(ra) == ra \div 1000

\* what Query does after Post returned err and filled gr: return an error,
\* or sleep and go round
QueryDecision(gr, err, total, limit) ==
    LET ra == SuggestedWait(gr.Extensions)
    IN  IF Len(gr.Errors) > 0
        THEN IF HasThrottled(gr.Errors) /\ LimitReached(total, limit)
             THEN [next |-> "return", sleep |-> <<>>,
                   err |-> RateLimitError(
                               ResponseError(StatusOK, FirstThrottled(gr.Errors).Message),
                               WholeSeconds(ra))]
             ELSE IF HasThrottled(gr.Errors)
                  THEN [next |-> "continue", sleep |-> <<WholeSeconds(ra)>>, err |-> Nil]
                  ELSE [next |-> "return", sleep |-> <<>>,
                        err |-> GraphQLResponseError(gr.Errors)]
        ELSE [next |-> "return", sleep |-> <<>>, err |-> err]

QueryEvent(ev, sent, secs) == [ev |-> ev, sent |-> sent, secs |-> secs, kind |-> ""]
\* a round of Query: Post sent so many requests
PostEvent(sent) == QueryEvent("post", sent, 0)
\* s.client.sleep(wait)
QuerySleepEvent(secs) == [QueryEvent("sleep", 0, secs) EXCEPT !.kind = "c.sleep"]

\* Query is entered: attempts := 0
Query ==
    /\ queryPc \in {"idle", "done"}
    /\ pc # "loop"
    /\ queryPc' = "round"
    /\ queryAttempts' = 0
    /\ queryRet' = NoReturn
    /\ queryTrace' = <<>>
    /\ UNCHANGED <<cRetries, attempts, apiVersion, RateLimits, pc, retries, body,
                   reqBody, v, resp, respErr, ret, trace, others>>

\* s.client.Post("graphql.json", data, &gr) up to the retry loop of
\* doGetHeaders
QueryPost ==
    /\ queryPc = "round"
    /\ Prologue(<<123>>, "ptr")
    /\ queryPc' = "post"
    /\ UNCHANGED <<queryAttempts, queryRet, queryTrace, others>>

\* s.client.Post when data cannot be marshalled: NewRequest fails.  The data
\* are the same in every round, so this is the first round
QueryPostFails ==
    /\ queryPc = "round"
    /\ queryTrace = <<>>
    /\ ReturnNewRequestError("json: unsupported type")
    /\ queryPc' = "post"
    /\ UNCHANGED <<queryAttempts, queryRet, queryTrace, others>>

\* the rest of the loop body, after Post returned
QueryRound ==
    /\ queryPc = "post"
    /\ pc = "done"
    /\ LET gr == IF ret.err = Nil THEN DecodeGraphQL(resp.Body)
                 ELSE graphQLResponse(<<>>, NilPtr)
           total == AccumulatedAttempts(queryAttempts, attempts)
           d == QueryDecision(gr, ret.err, total, cRetries)
       IN  /\ queryAttempts' = total
           /\ attempts' = total
           /\ RateLimits' = UpdateGraphQLCost(RateLimits, gr.Extensions)
           /\ queryTrace' = queryTrace \o <<PostEvent(Sends)>>
                                \o [i \in 1 .. Len(d.sleep) |-> QuerySleepEvent(d.sleep[i])]
           /\ IF d.next = "return"
              THEN queryPc' = "done" /\ queryRet' = Return(FALSE, d.err)
              ELSE queryPc' = "round" /\ queryRet' = queryRet
    /\ UNCHANGED <<cRetries, apiVersion, pc, retries, body, reqBody, v, resp,
                   respErr, ret, trace, others>>

GraphQLInit == NewClient(RetryCounts, {<<>>}, {"token"}, {""}) /\ Idle
GraphQLNext ==
    \/ Query
    \/ QueryPost
    \/ QueryPostFails
    \/ AttemptTransportError
    \/ AttemptErrorResponse
    \/ AttemptSuccess
    \/ QueryRound
GraphQLSpec == GraphQLInit /\ [][GraphQLNext]_vars

\* one Query on a freshly constructed client.  Query is a synchronous loop:
\* a Query that is about to post posts, a request that was sent is answered
\* by a response or by an error (the http client has a timeout), and a Post
\* that returned is followed by the rest of the round
FirstQuery == queryPc = "idle" /\ Query
QueryStep == QueryPost \/ QueryPostFails \/ Attempt \/ QueryRound
QueryCallNext ==
    \/ FirstQuery
    \/ QueryPost
    \/ QueryPostFails
    \/ AttemptTransportError
    \/ AttemptErrorResponse
    \/ AttemptSuccess
    \/ QueryRound
QueryCallSpec == GraphQLInit /\ [][QueryCallNext]_vars /\ WF_vars(QueryStep)

\* ------------------------------------------------------ the suggested wait
CostUnit == 50
Points == {k * CostUnit : k \in 0 .. MaxCost}
\* the costs a response may carry: the restore rate is positive
Costs ==
    {GraphQLCost(requested, actual, available, restoreRate) :
        requested \in Points, actual \in {NilPtr} \cup {Ptr(k) : k \in Points},
        available \in Points, restoreRate \in Points \ {0}}

\* Query reads the extensions of a response
QueryExtensions ==
    /\ \E c \in Costs :
          RateLimits' = UpdateGraphQLCost(RateLimits, Ptr([Cost |-> c]))
    /\ UNCHANGED <<cRetries, attempts, apiVersion, pc, retries, body, reqBody, v,
                   resp, respErr, ret, trace, others, query>>

CostInit == NewClient({0}, {<<>>}, {"token"}, {""}) /\ Idle
CostSpec == CostInit /\ [][QueryExtensions]_vars

\* ------------------------------------------------------ the request builder
\* a caller-supplied path is a sequence of tokens: the separator "/", the
\* segments "..", "." and "orders.json", and a segment with a bad escape
PathTokens == {"/", "..", ".", "orders.json", "%zz"}
\* two segments are separated by "/"
RelPaths ==
    {p \in UNION {[1 .. n -> PathTokens] : n \in 0 .. MaxPathLen} :
        \A i \in 1 .. Len(p) - 1 : p[i] = "/" \/ p[i + 1] = "/"}
\* the versions given to WithVersion: well-formed, "unstable", empty,
\* malformed
RequestVersionOptions ==
    {<<>>, <<PinnedVersion>>, <<<<"u", "n", "s", "t", "a", "b", "l", "e">>>>,
     <<<<>>>>, <<<<"9", "9", "9", "9", "-", "9", "9", "b">>>>}
\* whether the options and the body can be encoded
Encodable == {"nil", "unsupported"}
ApiKey == "apikey"

\* strings.TrimLeft(relPath, "/")
RECURSIVE TrimLeft(_)
TrimLeft(p) == IF p # <<>> /\ Head(p) = "/" THEN TrimLeft(Tail(p)) ELSE p

\* the segments of a path: what stands between the separators, the empty
\* segments left out
PathSegments(p) == SelectSeq(p, LAMBDA t : t # "/")

\* path.Clean of a relative path, on its segments: "." is dropped and ".."
\* removes the segment before it, or stays when there is none to remove
RECURSIVE Clean(_, _)
Clean(out, segs) ==
    IF segs = <<>> THEN out
    ELSE IF Head(segs) = "." THEN Clean(out, Tail(segs))
    ELSE IF Head(segs) = ".."
         THEN IF out # <<>> /\ out[Len(out)] # ".."
              THEN Clean(SubSeq(out, 1, Len(out) - 1), Tail(segs))
              ELSE Clean(Append(out, ".."), Tail(segs))
         ELSE Clean(Append(out, Head(segs)), Tail(segs))

\* path.Join(c.pathPrefix, relPath), on segments
PathJoin(prefix, p) == Clean(<<>>, prefix \o PathSegments(p))

\* url.Parse fails on a bad escape
ParseError(segs) == \E i \in DOMAIN segs : segs[i] = "%zz"

\* c.baseURL.ResolveReference(rel) for a base URL without a path: the path
\* is rooted and the ".." that lead nowhere are dropped
ResolveReference(segs) == SelectSeq(segs, LAMBDA t : t # "..")

\* the authentication that sends the token and the basic credentials
AuthorizationOfBoth(tok, pw) ==
    (IF tok # "" THEN {<<"X-Shopify-Access-Token", tok>>} ELSE {})
    \cup (IF pw # "" THEN {<<"Authorization", "Basic " \o ApiKey \o ":" \o pw>>} ELSE {})
\* the authentication headers of a request (the credentials of the basic
\* scheme are not encoded here)
Authorization(tok, pw) ==
    IF tok # "" THEN {<<"X-Shopify-Access-Token", tok>>}
    ELSE IF pw # "" THEN {<<"Authorization", "Basic " \o ApiKey \o ":" \o pw>>}
         ELSE {}

RequestError(relPath, e) ==
    [built |-> FALSE, err |-> PlainError(e), relPath |-> relPath, path |-> <<>>,
     auth |-> {}]

\* NewRequest on the joined path
NewRequest(relPath, joined, data, options) ==
    IF ParseError(joined) THEN RequestError(relPath, "invalid URL escape")
    ELSE IF options = "unsupported"
         THEN RequestError(relPath, "query: unsupported type")
         ELSE IF data = "unsupported"
              THEN RequestError(relPath, "json: unsupported type")
              ELSE [built |-> TRUE, err |-> Nil, relPath |-> relPath,
                    path |-> ResolveReference(joined),
                    auth |-> Authorization(token, password)]

\* the prefix that follows the version the client has recorded
PrefixOfRecordedVersion(prefix, version) ==
    IF version = defaultApiVersion THEN prefix
    ELSE <<defaultApiPathPrefix, "api", version>>
\* the prefix of a request: c.pathPrefix, whatever c.apiVersion is
RequestPrefix(prefix, version) == prefix

\* createAndDoGetHeaders up to the call of doGetHeaders: the leading slashes
\* are trimmed, the prefix is joined and the request is built
createAndDoGetHeaders ==
    /\ \E relPath \in RelPaths, data \in Encodable, options \in Encodable :
          req' = NewRequest(relPath,
                            PathJoin(RequestPrefix(pathPrefix, apiVersion),
                                     TrimLeft(relPath)),
                            data, options)
    /\ UNCHANGED <<cRetries, attempts, apiVersion, RateLimits, pc, retries, body,
                   reqBody, v, resp, respErr, ret, trace, pathPrefix, token,
                   password, shopifyError, query, services>>

RequestInit == NewClient({0}, RequestVersionOptions, {"", "token"}, {"", "pw"}) /\ Idle
\* the first request of a client
FirstRequest == req = NoRequest /\ createAndDoGetHeaders
RequestSpec == RequestInit /\ [][FirstRequest]_vars

\* -------------------------------------------- the "errors" of an error body
ElemStrings == {"is invalid", "is too long"}
Arrays == UNION {[1 .. n -> ElemStrings] : n \in 0 .. MaxElems}
\* the values of a key of the object: an array, or a single string
FieldValues == {JSONArray(a) : a \in Arrays} \cup {JSONString("is missing")}
\* the decoded "errors": absent, a string, an array, an object with the keys
\* "title" and "body" or with one of them or with none
ErrorsValues ==
    {JSONNil, JSONString("Not found")}
    \cup {JSONArray(a) : a \in Arrays}
    \cup {JSONObject(<<>>)}
    \cup {JSONObject(<<<<k, x>>>>) : k \in {"title", "body"}, x \in FieldValues}
    \cup {JSONObject(<<<<"title", x>>, <<"body", y>>>>) :
             x \in FieldValues, y \in {JSONArray(a) : a \in Arrays}}
ShopifyErrors == {[Error |-> e, Errors |-> x] : e \in {"", "e"}, x \in ErrorsValues}

\* the JSON text of a decoded value
RECURSIVE ValueJSON(_)
ValueJSON(x) ==
    IF x.kind = "nil" THEN "null"
    ELSE IF x.kind = "string" THEN "\"" \o x.str \o "\""
    ELSE IF x.kind = "array"
         THEN "[" \o Join([i \in 1 .. Len(x.elems) |-> "\"" \o x.elems[i] \o "\""], ",")
              \o "]"
         ELSE "{" \o Join([i \in 1 .. Len(x.fields) |->
                              "\"" \o x.fields[i][1] \o "\":"
                              \o ValueJSON(x.fields[i][2])], ",")
              \o "}"
\* the body that decodes into the shopifyError se
ShopifyErrorJSON(se) ==
    "{\"error\":\"" \o se.Error \o "\",\"errors\":" \o ValueJSON(se.Errors) \o "}"

\* the orders in which a range over a map of n keys may visit them
Orders(n) == {o \in [1 .. n -> 1 .. n] : \A i, j \in 1 .. n : o[i] = o[j] => i = j}

\* fmt.Sprintf("%v: %v", k, elem)
TopicAndElem(k, elem) == k \o ": " \o elem
\* the entries the map case appends for the key k with the value x
FieldEntries(k, x) ==
    IF x.kind = "array" THEN [i \in 1 .. Len(x.elems) |-> TopicAndElem(k, x.elems[i])]
    ELSE IF x.kind = "string" THEN <<TopicAndElem(k, x.str)>>
         ELSE <<>>
RECURSIVE ObjectEntries(_, _, _)
ObjectEntries(fields, order, i) ==
    IF i > Len(order) THEN <<>>
    ELSE FieldEntries(fields[order[i]][1], fields[order[i]][2])
         \o ObjectEntries(fields, order, i + 1)

\* the flattening that takes one entry for every key
FlattenFirstOfKey(responseError, errors, order) ==
    IF errors.kind = "string" THEN [responseError EXCEPT !.Message = errors.str]
    ELSE IF errors.kind = "array"
         THEN [responseError EXCEPT !.Errors = errors.elems,
                                    !.Message = Join(errors.elems, ", ")]
         ELSE LET entries == [i \in 1 .. Len(order) |->
                                TopicAndElem(errors.fields[order[i]][1], "is invalid")]
              IN  [responseError EXCEPT
                      !.Errors = entries,
                      !.Message = IF responseError.Message = "" /\ entries # <<>>
                                  THEN entries[1] ELSE responseError.Message]

\* the switch on the kind of shopifyError.Errors; order is the order in
\* which the range over the map visits the keys
Flatten(responseError, errors, order) ==
    IF errors.kind = "string" THEN [responseError EXCEPT !.Message = errors.str]
    ELSE IF errors.kind = "array"
         THEN [responseError EXCEPT !.Errors = errors.elems,
                                    !.Message = Join(errors.elems, ", ")]
         ELSE LET entries == ObjectEntries(errors.fields, order, 1)
              IN  [responseError EXCEPT
                      !.Errors = entries,
                      !.Message = IF responseError.Message = "" /\ entries # <<>>
                                  THEN entries[1] ELSE responseError.Message]

\* CheckResponseError after the body of a non-2xx response was decoded into
\* shopifyError
ClassifyShopifyError(r, se, order) ==
    LET responseError == ResponseError(r.StatusCode, se.Error)
    IN  IF se.Errors.kind = "nil" THEN wrapSpecificError(r, responseError)
        ELSE wrapSpecificError(r, Flatten(responseError, se.Errors, order))

\* CheckResponseError on an error response whose body has an "errors" field
CheckResponseErrors ==
    /\ \E status \in {404, StatusNotAcceptable, StatusTooManyRequests},
          se \in ShopifyErrors :
          \E order \in Orders(Len(se.Errors.fields)) :
             LET r == Response(status, ShopifyErrorJSON(se), <<>>, <<>>, "")
             IN  /\ shopifyError' = se
                 /\ resp' = r
                 /\ respErr' = ClassifyShopifyError(r, se, order)
    /\ UNCHANGED <<cRetries, attempts, apiVersion, RateLimits, pc, retries, body,
                   reqBody, v, ret, trace, pathPrefix, token, password, req, query,
                   services>>

\* the first response a client classifies
FirstCheck == resp = NoResponse /\ CheckResponseErrors
ClassifierInit == NewClient({0}, {<<>>}, {"token"}, {""}) /\ Idle
ClassifierSpec == ClassifierInit /\ [][FirstCheck]_vars

\* ---------------------------------------------------------- the error text
\* the messages of the model that Error() may have to sort, in the order of
\* their bytes
ByteOrder == <<"Access denied", "Field 'x' doesn't exist", "Throttled">>
\* a < b on strings
Less(a, b) ==
    LET rank(s) == CHOOSE i \in DOMAIN ByteOrder : ByteOrder[i] = s
    IN  rank(a) < rank(b)
\* sort.Strings: the elements in ascending order
RECURSIVE SortStrings(_)
SortStrings(elems) ==
    IF Len(elems) <= 1 THEN elems
    ELSE LET i == CHOOSE j \in DOMAIN elems :
                     \A k \in DOMAIN elems : ~Less(elems[k], elems[j])
             rest == [k \in 1 .. Len(elems) - 1 |->
                        IF k < i THEN elems[k] ELSE elems[k + 1]]
         IN  <<elems[i]>> \o SortStrings(rest)

\* the text that is the message and nothing else
ErrorMessageOnly(e) == e.Message
\* err.Error(): of a ResponseError and of the RateLimitError that embeds
\* it, the message, or the sorted list joined, or "Unknown Error"; of the
\* other errors, the message
Error(e) ==
    IF e.kind \in {"ResponseError", "RateLimitError"}
    THEN IF e.Message # "" THEN e.Message
         ELSE LET s == Join(SortStrings(e.Errors), ", ")
              IN  IF s # "" THEN s ELSE "Unknown Error"
    ELSE e.Message

\* ------------------------------------------------------------- pagination
MaxLinks == 2
\* a parameter of a query: the key, the value as characters, and whether
\* its escapes are valid
Param(key, value) == [key |-> key, value |-> value, escapes |-> TRUE]
BadEscape == [key |-> "%invalid_query", value |-> <<>>, escapes |-> FALSE]
\* a URL: the scheme before the colon, the host, the parameters of the query
URL(scheme, host, rawQuery) == [Scheme |-> scheme, Host |-> host, RawQuery |-> rawQuery]
\* an entry of a Link header: a link with a URL and a relation, or a text
\* that is not a link
Link(url, rel) == [link |-> TRUE, url |-> url, rel |-> rel, text |-> ""]
Text(text) == [link |-> FALSE, url |-> URL("", "", <<>>), rel |-> "", text |-> text]
PageInfo(chars) == Param("page_info", chars)
Limit(chars) == Param("limit", chars)
Foo == <<"f", "o", "o">>
Bar == <<"b", "a", "r">>
LinkEntries ==
    {Text("invalid link"), Text(""),
     Link(URL("", "invalid.url", <<>>), "next"),
     Link(URL("http", "valid.url", <<BadEscape>>), "next"),
     Link(URL("http", "valid.url", <<>>), "next"),
     Link(URL("http", "valid.url", <<PageInfo(Foo), Limit(<<"x">>)>>), "next"),
     Link(URL("http", "valid.url", <<PageInfo(Foo), Limit(<<"2">>)>>), "next"),
     Link(URL("http", "valid.url", <<PageInfo(Bar)>>), "previous"),
     Link(URL("http", "valid.url", <<PageInfo(Foo)>>), "last")}
\* a Link header as its entries; the header is the entries joined by ","
LinkHeaders == UNION {[1 .. n -> LinkEntries] : n \in 0 .. MaxLinks}

ParamText(p) ==
    p.key \o (IF p.key = "page_info" \/ p.key = "limit" THEN "=" ELSE "")
    \o Concat(p.value)
URLText(u) ==
    u.Scheme \o ":" \o (IF u.Scheme = "" THEN "" ELSE "//") \o u.Host
    \o (IF u.RawQuery = <<>> THEN ""
        ELSE "?" \o Join([i \in 1 .. Len(u.RawQuery) |-> ParamText(u.RawQuery[i])], "&"))
LinkText(l) ==
    IF l.link THEN "<" \o URLText(l.url) \o ">; rel=\"" \o l.rel \o "\"" ELSE l.text
LinkHeaderText(h) == Join([i \in 1 .. Len(h) |-> LinkText(h[i])], ",")

\* strings.Split(linkHeader, ","): of the empty header, one empty entry
SplitLinks(h) == IF h = <<>> THEN <<Text("")>> ELSE h
\* linkRegex.FindStringSubmatch: the match, the URL and the relation of an
\* entry of the form <URL>; rel="previous" or <URL>; rel="next"; nil of
\* any other entry
FindStringSubmatch(l) ==
    IF l.link /\ l.rel \in {"previous", "next"} THEN <<LinkText(l), l.url, l.rel>>
    ELSE <<>>
\* url.Parse: a URL that begins with a colon has no scheme
URLParse(u) ==
    IF u.Scheme = "" THEN [url |-> u, err |-> PlainError("missing protocol scheme")]
    ELSE [url |-> u, err |-> Nil]
\* url.ParseQuery: the parameters with valid escapes, and the error of the
\* first one with an invalid escape
ParseQuery(rawQuery) ==
    [values |-> SelectSeq(rawQuery, LAMBDA p : p.escapes),
     err |-> IF \E i \in DOMAIN rawQuery : ~rawQuery[i].escapes
             THEN PlainError("invalid URL escape \"%in\"") ELSE Nil]
\* params.Get(key): the first value of the key, or the empty string
Get(values, key) ==
    LET is == {i \in DOMAIN values : values[i].key = key}
    IN  IF is = {} THEN <<>> ELSE values[CHOOSE i \in is : \A j \in is : i <= j].value

ListOptions(pageInfo, limit) == [PageInfo |-> pageInfo, Limit |-> limit]
Pagination(next, previous) == [NextPageOptions |-> next, PreviousPageOptions |-> previous]
\* an extraction that returned a pagination, and one that returned an error
Extracted(pagination) == [pagination |-> Ptr(pagination), err |-> Nil]
ExtractionError(err) == [pagination |-> NilPtr, err |-> err]
AtoiError(chars) ==
    PlainError("strconv.Atoi: parsing \"" \o Concat(chars) \o "\": invalid syntax")

\* a check of the page_info parameter that accepts every value
PageInfoNeverMissing(pageInfo) == FALSE
\* paginationListOptions.PageInfo == ""
PageInfoMissing(pageInfo) == pageInfo = ""

\* the assignment that takes every link for the next page
SetNextPageOptions(pagination, rel, options) ==
    [pagination EXCEPT !.NextPageOptions = Ptr(options)]
\* 'rel' is either next or previous
SetPageOptions(pagination, rel, options) ==
    IF rel = "next" THEN [pagination EXCEPT !.NextPageOptions = Ptr(options)]
    ELSE [pagination EXCEPT !.PreviousPageOptions = Ptr(options)]

\* the loop of extractPagination over the entries that are left
RECURSIVE extractLinks(_, _)
extractLinks(links, pagination) ==
    IF links = <<>> THEN Extracted(pagination)
    ELSE
      LET match == FindStringSubmatch(Head(links))
      IN  IF Len(match) # 3
          THEN ExtractionError(ResponseDecodingError(
                   "", "could not extract pagination link header", 0))
          ELSE
            LET rel == URLParse(match[2])
                params == ParseQuery(rel.url.RawQuery)
                pageInfo == Concat(Get(params.values, "page_info"))
                limit == Get(params.values, "limit")
                parsed == Atoi(limit)
            IN  IF rel.err # Nil
                THEN ExtractionError(ResponseDecodingError(
                         "", "pagination does not contain a valid URL", 0))
                ELSE IF params.err # Nil THEN ExtractionError(params.err)
                ELSE IF PageInfoMissing(pageInfo)
                THEN ExtractionError(ResponseDecodingError("", "page_info is missing", 0))
                ELSE IF limit # <<>> /\ parsed.err THEN ExtractionError(AtoiError(limit))
                ELSE extractLinks(
                         Tail(links),
                         SetPageOptions(pagination, match[3],
                                        ListOptions(pageInfo, parsed.n)))

\* extractPagination of the header with the entries h
extractPagination(h) ==
    IF LinkHeaderText(h) = "" THEN Extracted(Pagination(NilPtr, NilPtr))
    ELSE extractLinks(SplitLinks(h), Pagination(NilPtr, NilPtr))

\* Client.ListWithPagination after createAndDoGetHeaders returned err and
\* the headers with the Link header h
ListWithPagination(err, h) ==
    IF err # Nil THEN ExtractionError(err) ELSE extractPagination(h)

\* ------------------------------------------------------ the payout service
\* the Payouts of the PayoutsResource a body was decoded into, as their ids
DecodePayouts(b) == IF b = "{\"payouts\":[{\"id\":1},{\"id\":2}]}" THEN <<1, 2>> ELSE <<>>

\* PayoutServiceOp.ListWithPagination up to the retry loop of doGetHeaders:
\* a GET without a body, with a new PayoutsResource to decode into
PayoutList ==
    /\ payoutList.pc # "call"
    /\ pc # "loop"
    /\ Prologue(<<>>, "ptr")
    /\ payoutList' = [NoList EXCEPT !.pc = "call"]
    /\ UNCHANGED <<pathPrefix, token, password, req, shopifyError, query, race,
                   errorText>>

\* PayoutServiceOp.ListWithPagination with options that cannot be encoded:
\* NewRequest fails
PayoutListFails ==
    /\ payoutList.pc # "call"
    /\ pc # "loop"
    /\ ReturnNewRequestError("query: unsupported type")
    /\ payoutList' = [NoList EXCEPT !.pc = "call"]
    /\ UNCHANGED <<pathPrefix, token, password, req, shopifyError, query, race,
                   errorText>>

\* the rest of PayoutServiceOp.ListWithPagination, after the call of the
\* client returned: the Link header is read from the headers of a call that
\* succeeded; List returns the same payouts and the same error
PayoutListReturns ==
    /\ payoutList.pc = "call"
    /\ pc = "done"
    /\ \E h \in IF ret.err = Nil THEN LinkHeaders ELSE {<<>>} :
          LET r == ListWithPagination(ret.err, h)
          IN  payoutList' =
                 [pc |-> "done", linkHeader |-> h,
                  payouts |-> IF r.err # Nil THEN <<>> ELSE DecodePayouts(resp.Body),
                  pagination |-> r.pagination,
                  err |-> r.err]
    /\ UNCHANGED <<cRetries, attempts, apiVersion, RateLimits, pc, retries, body,
                   reqBody, v, resp, respErr, ret, trace, pathPrefix, token,
                   password, req, shopifyError, query, race, errorText>>

\* the first call of the payout service on a client with a retry count of
\* 1 or 2
ListInit == NewClient({1, 2}, {<<>>}, {"token"}, {""}) /\ Idle
FirstPayoutList == payoutList.pc = "idle" /\ PayoutList
FirstPayoutListFails == payoutList.pc = "idle" /\ PayoutListFails
ListNext ==
    \/ FirstPayoutList
    \/ FirstPayoutListFails
    \/ AttemptTransportError
    \/ AttemptErrorResponse
    \/ AttemptSuccess
    \/ PayoutListReturns
ListSpec == ListInit /\ [][ListNext]_vars

\* ------------------------------------------- two calls on one client at once
\* Two goroutines share the client: one runs Query, one runs a REST call.
\* c.attempts is read and written without synchronisation, so every access
\* is a step of its own and the steps of the two goroutines interleave;
\* c.attempts++ is a load and a store.  The waits take no part in it.
\* what the server answers to the goroutine
RaceResponses(g) ==
    IF g = "query"
    THEN {Response(StatusOK, GraphQLJSON(graphQLResponse(e, NilPtr)), <<>>, <<>>, "") :
             e \in {<<>>, <<ThrottledError>>}}
         \cup {Response(StatusServiceUnavailable, "", <<>>, <<>>, "")}
    ELSE {Response(StatusOK, "{}", <<>>, <<>>, ""),
          Response(StatusServiceUnavailable, "", <<>>, <<>>, ""),
          Response(404, "", <<>>, <<>>, "")}

\* the goroutine g goes on as rec; wrote tells whether the step wrote
\* c.attempts
Goes(g, rec, wrote) ==
    race' = [h \in Goroutines |->
                IF h = g THEN rec
                ELSE IF wrote /\ race[h].pc \notin {"idle", "done"}
                     THEN [race[h] EXCEPT !.raced = TRUE]
                     ELSE race[h]]
RaceFrame ==
    UNCHANGED <<cRetries, apiVersion, RateLimits, pc, retries, body, reqBody, v,
                resp, respErr, ret, trace, pathPrefix, token, password, req,
                shopifyError, query, payoutList, errorText>>

\* the counter a call finds at its entry when doGetHeaders does not reset it
AttemptsKeptAtEntry(counter) == counter
\* c.attempts = 0
AttemptsAtEntry(counter) == 0

\* the call is entered; Query: attempts := 0
RaceEnter(g) ==
    /\ race[g].pc = "idle"
    /\ Goes(g, [NoGoroutine EXCEPT !.pc = "reset"], FALSE)
    /\ UNCHANGED attempts
    /\ RaceFrame
\* doGetHeaders: retries := c.retries; c.attempts = 0
RaceReset(g) ==
    /\ race[g].pc = "reset"
    /\ attempts' = AttemptsAtEntry(attempts)
    /\ Goes(g, [race[g] EXCEPT !.pc = "load",
                               !.retries = BudgetAtEntry(cRetries, @)], TRUE)
    /\ RaceFrame
\* c.attempts++: the load
RaceLoad(g) ==
    /\ race[g].pc = "load"
    /\ Goes(g, [race[g] EXCEPT !.pc = "store", !.tmp = attempts], FALSE)
    /\ UNCHANGED attempts
    /\ RaceFrame
\* c.attempts++: the store; then the request is sent
RaceStore(g) ==
    /\ race[g].pc = "store"
    /\ attempts' = race[g].tmp + 1
    /\ Goes(g, [race[g] EXCEPT !.pc = "do", !.own = @ + 1], TRUE)
    /\ RaceFrame
\* the request is answered: the loop goes round, or doGetHeaders returns
RaceDo(g) ==
    /\ race[g].pc = "do"
    /\ \E r \in RaceResponses(g) :
          LET err == CheckResponseError(r)
              d == RetryDecision(race[g].retries, r, err)
              after == IF g = "query" THEN "read" ELSE "done"
          IN  Goes(g, IF err = Nil
                      THEN [race[g] EXCEPT !.pc = after, !.resp = r, !.err = Nil]
                      ELSE IF d.next = "return"
                           THEN [race[g] EXCEPT !.pc = after, !.resp = r, !.err = d.err]
                           ELSE [race[g] EXCEPT !.pc = "load", !.resp = r,
                                                !.retries = d.retries],
                   FALSE)
    /\ UNCHANGED attempts
    /\ RaceFrame
\* Query: attempts += s.client.attempts
RaceAccumulate(g) ==
    /\ g = "query"
    /\ race[g].pc = "read"
    /\ Goes(g, [race[g] EXCEPT !.pc = "write",
                               !.local = AccumulatedAttempts(@, attempts)], FALSE)
    /\ UNCHANGED attempts
    /\ RaceFrame
\* Query: s.client.attempts = attempts, and the rest of the round
RaceWriteBack(g) ==
    /\ g = "query"
    /\ race[g].pc = "write"
    /\ attempts' = race[g].local
    /\ LET gr == IF race[g].err = Nil THEN DecodeGraphQL(race[g].resp.Body)
                 ELSE graphQLResponse(<<>>, NilPtr)
           d == QueryDecision(gr, race[g].err, race[g].local, cRetries)
       IN  Goes(g, IF d.next = "return"
                   THEN [race[g] EXCEPT !.pc = "done", !.err = d.err]
                   ELSE [race[g] EXCEPT !.pc = "reset"],
                TRUE)
    /\ RaceFrame

RaceInit ==
    /\ NewClient({2}, {<<>>}, {"token"}, {""})
    /\ Idle
RaceNext ==
    \E g \in Goroutines :
        \/ RaceEnter(g)
        \/ RaceReset(g)
        \/ RaceLoad(g)
        \/ RaceStore(g)
        \/ RaceDo(g)
        \/ RaceAccumulate(g)
        \/ RaceWriteBack(g)
RaceSpec == RaceInit /\ [][RaceNext]_vars

\* ------------------------------------------------- the caller reads the error
\* the error value the caller holds after e.Error() ran: Error has a value
\* receiver, but the copy shares the array of e.Errors, which
\* sort.Strings sorts in place when the message is empty
AfterError(e) ==
    IF e.kind \in {"ResponseError", "RateLimitError"} /\ e.Message = ""
    THEN [e EXCEPT !.Errors = SortStrings(@)]
    ELSE e

\* the caller of Query calls Error() on the error it got
CallError ==
    /\ queryPc = "done"
    /\ queryRet.err # Nil
    /\ errorText' = Error(queryRet.err)
    /\ queryRet' = [queryRet EXCEPT !.err = AfterError(@)]
    /\ UNCHANGED <<cRetries, attempts, apiVersion, RateLimits, pc, retries, body,
                   reqBody, v, resp, respErr, ret, trace, pathPrefix, token,
                   password, req, shopifyError, queryPc, queryAttempts,
                   queryTrace, payoutList, race>>

\* one Query whose caller reads the error
ErrorNext ==
    \/ FirstQuery
    \/ QueryPost
    \/ QueryPostFails
    \/ AttemptTransportError
    \/ AttemptErrorResponse
    \/ AttemptSuccess
    \/ QueryRound
    \/ CallError
ErrorSpec == GraphQLInit /\ [][ErrorNext]_vars

\* ------------------------------------------- a request after the latch
\* a call on a client without WithVersion, and the request the client
\* builds next when the response carried a version header
CallBeforeRequest == pc = "idle" /\ doGetHeaders
RequestAfterLatch ==
    /\ pc = "done"
    /\ resp.ApiVersion # ""
    /\ body = <<>>
    /\ v = "nil"
    /\ req = NoRequest
    /\ createAndDoGetHeaders
LatchInit == NewClient({1}, {<<>>}, {"", "token"}, {""}) /\ Idle
LatchNext ==
    \/ CallBeforeRequest
    \/ AttemptTransportError
    \/ AttemptErrorResponse
    \/ AttemptSuccess
    \/ RequestAfterLatch
LatchSpec == LatchInit /\ [][LatchNext]_vars

TypeOK ==
    /\ cRetries \in RetryCounts
    /\ attempts \in 0 .. MaxRetries + 1
    /\ pc \in {"idle", "loop", "done"}
    /\ body \in RequestBodies
    /\ v \in ResultArgs

\* ------------------------------------------------------------ properties
Max(a, b) == IF a >= b THEN a ELSE b
LastRecv == CHOOSE i \in Events("recv") : \A j \in Events("recv") : j <= i
\* the step is an attempt of the loop
AttemptStep == attempts' = attempts + 1
\* the step is an attempt that was answered by a response
ResponseStep == AttemptStep /\ resp' # NoResponse
IsErrorStatus(status) == status < StatusOK \/ status >= StatusMultipleChoices
\* the body of the response is neither empty nor JSON
NotJSON(r) == r.Body = "<html>"
\* the whole seconds of the Retry-After values of the model
RetryAfterSeconds(h) ==
    IF h = <<"2">> \/ h = <<"2", ".", "5">> THEN 2 ELSE 0

\* every request of the call was answered by a 429 or a 503
AllAnswers429Or503 ==
    /\ Events("fail") = {}
    /\ \A i \in Events("recv") :
          trace[i].status \in {StatusTooManyRequests, StatusServiceUnavailable}
\* every request of the call was answered by a 503 or by a 429 that was
\* classified as a rate-limit error
AllAnswersRetryable ==
    /\ Events("fail") = {}
    /\ \A i \in Events("recv") :
          \/ trace[i].status = StatusServiceUnavailable
          \/ trace[i].kind = "RateLimitError"

\* C1 as stated: at most max(1, N) requests, and exactly that many when
\* every response was a 429 or a 503
C1_BoundReachedOnAny429Or503 ==
    /\ Sends <= Max(1, cRetries)
    /\ (pc = "done" /\ AllAnswers429Or503) => Sends = Max(1, cRetries)

\* C1 amended: a logical call terminates, it sends at most max(1, N)
\* requests, and exactly max(1, N) when every response was a 503 or a 429
\* classified as a rate-limit error (body empty or JSON)
C1_TerminatesWithinBudget ==
    /\ [](Sends <= Max(1, cRetries))
    /\ []((pc = "done" /\ AllAnswersRetryable) => Sends = Max(1, cRetries))
    /\ (pc = "loop") ~> (pc = "done")

C1_Witness ==
    /\ pc = "done"
    /\ cRetries = 3
    /\ Sends = 3
    /\ AllAnswersRetryable
    /\ \E i, j \in Events("recv") :
          trace[i].status = StatusTooManyRequests
          /\ trace[j].status = StatusServiceUnavailable

\* the step received a 429 with Retry-After: 2
Got429RetryAfter2 ==
    /\ ResponseStep
    /\ resp'.StatusCode = StatusTooManyRequests
    /\ resp'.RetryAfter = <<"2">>

\* the step sent one request, got the response and slept for secs before
\* going round the loop
SleptOnce(secs) ==
    /\ Len(trace') = Len(trace) + 3
    /\ SubSeq(trace', 1, Len(trace)) = trace
    /\ trace'[Len(trace) + 1].ev = "send"
    /\ trace'[Len(trace) + 2].ev = "recv"
    /\ trace'[Len(trace) + 3] = SleepEvent(secs)
    /\ pc' = "loop"
\* the step sent one request, got the response and returned without delay
ReturnedAtOnce ==
    /\ Len(trace') = Len(trace) + 2
    /\ SubSeq(trace', 1, Len(trace)) = trace
    /\ trace'[Len(trace) + 1].ev = "send"
    /\ trace'[Len(trace) + 2].ev = "recv"
    /\ pc' = "done"
\* the step sent one request, got the response and went round at once
RetriedAtOnce ==
    /\ Len(trace') = Len(trace) + 2
    /\ SubSeq(trace', 1, Len(trace)) = trace
    /\ trace'[Len(trace) + 1].ev = "send"
    /\ trace'[Len(trace) + 2].ev = "recv"
    /\ pc' = "loop"

\* in the trace a sleep comes right after a response and right before the
\* next request
SleepsBetweenAttempts ==
    \A i \in Events("sleep") :
        /\ i > 1 /\ trace[i - 1].ev = "recv"
        /\ IF i = Len(trace) THEN pc = "loop" ELSE trace[i + 1].ev = "send"

\* C2 as stated: any 429 with Retry-After: 2 gives one sleep of 2 seconds
\* and a further attempt when the budget is at least 2, and the rate-limit
\* error at once when the budget is 1
C2_Any429Delays2Seconds ==
    [][Got429RetryAfter2 =>
          /\ retries >= 2 => SleptOnce(2)
          /\ cRetries = 1 =>
                (ReturnedAtOnce /\ ret'.err.kind = "RateLimitError"
                 /\ ret'.err.RetryAfter = 2 /\ Len(trace') = 2)]_vars

\* C2 amended: the same for a 429 whose body is empty or JSON
C2_RateLimited429Delays2Seconds ==
    /\ []SleepsBetweenAttempts
    /\ [][(Got429RetryAfter2 /\ ~NotJSON(resp')) =>
             /\ retries >= 2 => SleptOnce(2)
             /\ cRetries = 1 =>
                   (ReturnedAtOnce /\ ret'.err.kind = "RateLimitError"
                    /\ ret'.err.RetryAfter = 2 /\ Len(trace') = 2)]_vars

C2_Witness ==
    /\ Len(trace) >= 5
    /\ trace[2].ev = "recv" /\ trace[2].status = StatusTooManyRequests
    /\ trace[3] = SleepEvent(2)
    /\ trace[4].ev = "send"
    /\ Cardinality(Events("sleep")) = 1

\* C3: an error response is retried only if it is a rate-limit error or a
\* 503; any other error response ends the call with its error, without a
\* sleep and without another attempt, whatever budget is left
C3_OnlyRateLimitAnd503Retried ==
    [][(ResponseStep /\ IsErrorStatus(resp'.StatusCode)) =>
          /\ pc' = "loop" =>
                (respErr'.kind = "RateLimitError"
                 \/ resp'.StatusCode = StatusServiceUnavailable)
          /\ (respErr'.kind # "RateLimitError"
              /\ resp'.StatusCode # StatusServiceUnavailable) =>
                (ReturnedAtOnce /\ ret'.returned /\ ret'.err = respErr'
                 /\ ret'.err.kind \in {"ResponseError", "ResponseDecodingError"}
                 /\ ret'.err.Status = resp'.StatusCode)]_vars

C3_Witness ==
    /\ pc = "done"
    /\ resp.StatusCode = 500
    /\ retries > 1
    /\ Sends = 1
    /\ ret.err.Status = 500

\* C4: a 503 received while retries > 1 takes one from the budget and the
\* next attempt follows without a sleep; every retried response, 429 or
\* 503, takes one from the same budget
C4_503RetriedAtOnceOnSharedBudget ==
    /\ [](pc = "loop" => retries = cRetries - Cardinality(Events("recv")))
    /\ [][(ResponseStep /\ resp'.StatusCode = StatusServiceUnavailable
           /\ retries > 1) =>
             (RetriedAtOnce /\ retries' = retries - 1)]_vars

C4_Witness ==
    /\ pc = "loop"
    /\ Len(trace) = 5
    /\ trace[2].kind = "RateLimitError"
    /\ trace[5].ev = "recv" /\ trace[5].status = StatusServiceUnavailable
    /\ retries = cRetries - 2

\* C5: a transport error on any attempt ends the call with that very
\* error, without another attempt and without a sleep
C5_TransportErrorEndsCall ==
    [][(AttemptStep /\ resp' = NoResponse) =>
          /\ pc' = "done"
          /\ Len(trace') = Len(trace) + 2
          /\ SubSeq(trace', 1, Len(trace)) = trace
          /\ trace'[Len(trace) + 1].ev = "send"
          /\ trace'[Len(trace) + 2].ev = "fail"
          /\ ret'.returned
          /\ ret'.err = PlainError(trace'[Len(trace') ].kind)]_vars

C5_Witness ==
    /\ pc = "done"
    /\ trace[Len(trace)].ev = "fail"
    /\ Sends = 2
    /\ retries > 1
    /\ ret.err.Message = "timeout"

\* C6: a call that ends because the budget is used up returns the
\* classified error of the last response
C6_ExhaustionReturnsLastError ==
    (pc = "done" /\ respErr # Nil /\ retries <= 1) =>
        /\ ret.returned
        /\ ret.err = respErr
        /\ ret.err.kind = trace[LastRecv].kind
        /\ ret.err.kind \in {"ResponseError", "RateLimitError", "ResponseDecodingError"}
        /\ ret.err.Status = resp.StatusCode
        /\ ret.err.Status = trace[LastRecv].status
        /\ LastRecv = Len(trace)

C6_Witness ==
    /\ pc = "done"
    /\ Len(trace) = 5
    /\ trace[2].status = StatusTooManyRequests
    /\ trace[5].status = StatusServiceUnavailable
    /\ retries = 1
    /\ ret.err.Status = StatusServiceUnavailable

\* C7: every attempt of a call sends the body of the first attempt
C7_SameBodyOnEveryAttempt ==
    \A i \in Events("send") : trace[i].body = trace[1].body

C7_Witness ==
    /\ Sends = 3
    /\ trace[1].body # <<>>
    /\ \A i \in Events("send") : trace[i].body = trace[1].body

\* C8 as stated: every 429 is classified as a rate-limit error with the
\* whole seconds of Retry-After, whatever its body
C8_Every429IsRateLimitError ==
    resp.StatusCode = StatusTooManyRequests =>
        /\ respErr.kind = "RateLimitError"
        /\ respErr.RetryAfter = RetryAfterSeconds(resp.RetryAfter)

\* C8 amended: every 429 whose body is empty or JSON is classified as a
\* rate-limit error with the whole seconds of Retry-After (0 when the
\* header is absent or does not parse)
C8_429WithParsedBodyIsRateLimitError ==
    (resp.StatusCode = StatusTooManyRequests /\ ~NotJSON(resp)) =>
        /\ respErr.kind = "RateLimitError"
        /\ respErr.Status = StatusTooManyRequests
        /\ respErr.RetryAfter = RetryAfterSeconds(resp.RetryAfter)

C8_Witness ==
    /\ resp.StatusCode = StatusTooManyRequests
    /\ resp.Body = ""
    /\ resp.RetryAfter = <<"2", ".", "5">>
    /\ respErr.kind = "RateLimitError"
    /\ respErr.RetryAfter = 2

\* C9 as stated: a non-2xx response whose body is not JSON gives a
\* response-decoding error and the call returns it after that attempt
C9_DecodingErrorNeverRetried ==
    (IsErrorStatus(resp.StatusCode) /\ resp # NoResponse /\ NotJSON(resp)) =>
        /\ respErr.kind = "ResponseDecodingError"
        /\ pc = "done"
        /\ ret.err = respErr

\* C9 amended: a non-2xx response whose body is not JSON gives a
\* response-decoding error; the call returns it after that attempt unless
\* the status is 503, which is retried while budget is left
C9_DecodingErrorRetriedOn503Only ==
    (IsErrorStatus(resp.StatusCode) /\ resp # NoResponse /\ NotJSON(resp)) =>
        /\ respErr.kind = "ResponseDecodingError"
        /\ respErr.Body = resp.Body
        /\ respErr.Status = resp.StatusCode
        /\ resp.StatusCode # StatusServiceUnavailable =>
              (pc = "done" /\ ret.err = respErr
               /\ trace[Len(trace)].ev = "recv")
        /\ resp.StatusCode = StatusServiceUnavailable =>
              /\ pc = "done" => (retries <= 1 /\ ret.err = respErr)
              /\ pc = "loop" => trace[Len(trace)].ev = "recv"

C9_Witness ==
    /\ pc = "done"
    /\ resp.StatusCode = StatusTooManyRequests
    /\ resp.Body = "<html>"
    /\ retries > 1
    /\ ret.err.kind = "ResponseDecodingError"

\* C10: a 2xx response whose body does not decode into the result value
\* gives a response-decoding error with the body, the status and the
\* parser's message, and the call ends
C10_SuccessDecodeFailureIsDecodingError ==
    (pc = "done" /\ v = "ptr" /\ resp # NoResponse
     /\ ~IsErrorStatus(resp.StatusCode) /\ ~JSONValid(resp.Body)) =>
        /\ ret.err.kind = "ResponseDecodingError"
        /\ ret.err.Body = resp.Body
        /\ ret.err.Status = resp.StatusCode
        /\ ret.err.Message = JSONErrorMessage(resp.Body)

\* ---------------------------------------------------- properties of Query
\* the step is the rest of a round of Query, after Post returned
QueryRoundStep == queryPc = "post" /\ queryPc' # "post"
\* Post got a 200 whose body was decoded into gr
Answered == pc = "done" /\ ret.returned /\ ret.err = Nil
\* the errors and the extensions of the response that was decoded
AnsweredErrors == DecodeGraphQL(resp.Body).Errors
AnsweredExtensions == DecodeGraphQL(resp.Body).Extensions
IsThrottledError(e) == e.Extensions # NilPtr /\ e.Extensions[1].Code = "THROTTLED"
AnsweredThrottled ==
    Answered /\ \E i \in DOMAIN AnsweredErrors : IsThrottledError(AnsweredErrors[i])
\* the suggested wait of the extensions in thousandths of a second:
\* (cost - currentlyAvailable) / restoreRate when the cost is not covered
ClaimedWait(x) ==
    IF x = NilPtr THEN 0
    ELSE LET c == x[1].Cost
             cost == IF c.ActualQueryCost # <<>> THEN c.ActualQueryCost[1]
                     ELSE c.RequestedQueryCost
         IN  IF c.CurrentlyAvailable >= cost THEN 0
             ELSE ((cost - c.CurrentlyAvailable) * 1000) \div c.RestoreRate
\* the requests sent in the rounds of tr
RECURSIVE SentInRounds(_)
SentInRounds(tr) ==
    IF tr = <<>> THEN 0 ELSE tr[1].sent + SentInRounds(Tail(tr))
\* the only step of a Query that is about to post is a Post of the same data
RoundResendsQuery ==
    (queryPc = "round" /\ queryTrace # <<>>) =>
        (queryPc' = "post" /\ pc' = "loop" /\ body' = body /\ trace' = <<>>
         /\ queryTrace' = queryTrace)

\* C11 as stated: on a response with a throttled error, Query returns a
\* rate-limit error whose retry-after is the suggested wait when the
\* accumulated attempts have reached the limit, and otherwise calls the
\* delay function with the suggested wait and posts the query again
C11_ThrottledWaitsSuggestedWait ==
    [][(QueryRoundStep /\ AnsweredThrottled) =>
          IF attempts' >= cRetries
          THEN /\ queryPc' = "done"
               /\ queryRet'.err.kind = "RateLimitError"
               /\ queryRet'.err.RetryAfter * 1000 = ClaimedWait(AnsweredExtensions)
          ELSE /\ queryPc' = "round"
               /\ Len(queryTrace') = Len(queryTrace) + 2
               /\ queryTrace'[Len(queryTrace')].ev = "sleep"
               /\ queryTrace'[Len(queryTrace')].secs * 1000
                     = ClaimedWait(AnsweredExtensions)]_vars

\* C11 amended: on a response with a throttled error at any place of the
\* error list, Query returns a rate-limit error (status 200) whose
\* retry-after is the whole seconds of the suggested wait when the
\* accumulated attempts have reached the limit; otherwise it calls the delay
\* function once with the whole seconds of the suggested wait, returns
\* nothing and posts the same query again
C11_ThrottledWaitsWholeSeconds ==
    /\ [][(QueryRoundStep /\ AnsweredThrottled) =>
             IF attempts' >= cRetries
             THEN /\ queryPc' = "done"
                  /\ queryRet'.returned
                  /\ queryRet'.err.kind = "RateLimitError"
                  /\ queryRet'.err.Status = StatusOK
                  /\ queryRet'.err.RetryAfter
                        = ClaimedWait(AnsweredExtensions) \div 1000
                  /\ queryTrace' = queryTrace \o <<PostEvent(Sends)>>
             ELSE /\ queryPc' = "round"
                  /\ queryRet' = NoReturn
                  /\ queryTrace' = queryTrace \o
                        <<PostEvent(Sends),
                          QuerySleepEvent(ClaimedWait(AnsweredExtensions) \div 1000)>>]_vars
    /\ [][RoundResendsQuery]_vars

C11_Witness ==
    /\ queryPc = "done"
    /\ cRetries = 3
    /\ Len(queryTrace) = 5
    /\ queryTrace[2] = QuerySleepEvent(2)
    /\ queryTrace[4] = QuerySleepEvent(0)
    /\ Answered
    /\ AnsweredErrors = <<FieldError, ThrottledError, AccessError>>
    /\ queryRet.err.kind = "RateLimitError"
    /\ queryRet.err.RetryAfter = 2

\* C12: a 200 response whose error list is not empty and has no throttled
\* error makes Query return at once, without a sleep, a ResponseError of
\* status 200 with the messages of the list in the order of the list; and
\* Query never returns nil for a response whose error list is not empty
C12_ErrorsReturnedInOrder ==
    /\ [][(QueryRoundStep /\ Answered /\ AnsweredErrors # <<>>
           /\ ~AnsweredThrottled) =>
             /\ queryPc' = "done"
             /\ queryRet'.returned
             /\ queryRet'.err.kind = "ResponseError"
             /\ queryRet'.err.Status = StatusOK
             /\ queryRet'.err.Errors
                   = [i \in 1 .. Len(AnsweredErrors) |-> AnsweredErrors[i].Message]
             /\ queryTrace' = queryTrace \o <<PostEvent(Sends)>>]_vars
    /\ []((queryPc = "done" /\ Answered /\ AnsweredErrors # <<>>) =>
             queryRet.err # Nil)

C12_Witness ==
    /\ queryPc = "done"
    /\ Answered
    /\ AnsweredErrors = <<FieldError, AccessError>>
    /\ queryRet.err.Errors = <<"Field 'x' doesn't exist", "Access denied">>
    /\ cRetries = 3
    /\ queryTrace = <<PostEvent(1)>>

\* C13 as stated: when Query has returned, the attempt counter of the
\* client is the number of requests sent in all rounds of that Query
C13_CounterIsRequestsSent ==
    queryPc = "done" => attempts = SentInRounds(queryTrace)

\* C13 amended: when Query has returned after a request could be built,
\* the attempt counter of the client is the number of requests sent in all
\* rounds of that Query, and the limit is compared with that number; when
\* the request cannot be built nothing is sent and the counter keeps the
\* value the call before left in it
C13_CounterIsRequestsSentUnlessNoRequest ==
    /\ []((queryPc = "done" /\ trace[1].ev # "norequest") =>
             /\ attempts = SentInRounds(queryTrace)
             /\ queryAttempts = SentInRounds(queryTrace))
    /\ [][(QueryRoundStep /\ trace[1].ev = "norequest") =>
             /\ attempts' = attempts
             /\ SentInRounds(queryTrace') = 0
             /\ queryPc' = "done"]_vars
    /\ [][(QueryRoundStep /\ AnsweredThrottled) =>
             (queryPc' = "done" <=> SentInRounds(queryTrace') >= cRetries)]_vars

C13_Witness ==
    /\ queryPc = "done"
    /\ Len(queryTrace) = 3
    /\ queryTrace[1] = PostEvent(2)
    /\ queryTrace[3] = PostEvent(3)
    /\ attempts = 5
    /\ queryRet.err.kind = "RateLimitError"

IsPrefixOf(p, q) == Len(p) <= Len(q) /\ SubSeq(q, 1, Len(p)) = p

\* C17: for every caller-supplied path the path of the URL of the request
\* begins with the prefix of the client
C17_PathBeginsWithPrefix ==
    req.built => IsPrefixOf(pathPrefix, req.path)

\* C19 as stated: every request carries exactly one authentication, the
\* token header when a token is configured and the basic scheme with the
\* API key otherwise
C19_ExactlyOneAuthMode ==
    req.built =>
        /\ Cardinality(req.auth) = 1
        /\ token # "" => req.auth = {<<"X-Shopify-Access-Token", token>>}
        /\ token = "" => \E h \in req.auth : h[1] = "Authorization"

\* C19 amended: a request never carries both; it carries the token header
\* when a token is configured, whatever the password; otherwise the basic
\* scheme with the API key as the user name when a password is configured;
\* and no authentication when neither is configured
C19_AtMostOneAuthMode ==
    req.built =>
        /\ Cardinality(req.auth) <= 1
        /\ token # "" => req.auth = {<<"X-Shopify-Access-Token", token>>}
        /\ (token = "" /\ password # "") =>
              req.auth = {<<"Authorization", "Basic apikey:" \o password>>}
        /\ (token = "" /\ password = "") => req.auth = {}

C19_Witness ==
    /\ req.built
    /\ token = "token"
    /\ password = "pw"
    /\ req.auth = {<<"X-Shopify-Access-Token", "token">>}

\* ------------------------------------------ properties of the classifier
\* the entries of the list that belong to the key k
EntriesOfKey(list, k) ==
    SelectSeq(list, LAMBDA e : \E x \in ElemStrings : e = k \o ": " \o x)
ArraysOnly(fields) == \A i \in DOMAIN fields : fields[i][2].kind = "array"
RECURSIVE TotalElems(_)
TotalElems(fields) ==
    IF fields = <<>> THEN 0 ELSE Len(fields[1][2].elems) + TotalElems(Tail(fields))
\* the list has one entry "key: element" for every element of every key,
\* the elements of one key in their order
OneEntryPerPair(list, fields) ==
    /\ Len(list) = TotalElems(fields)
    /\ \A i \in DOMAIN fields :
          EntriesOfKey(list, fields[i][1])
            = [j \in 1 .. Len(fields[i][2].elems) |->
                  fields[i][1] \o ": " \o fields[i][2].elems[j]]

\* C20 as stated: an "errors" array of N elements gives N entries in the
\* order of the array and the message is the entries joined by ", "; an
\* object of arrays gives every pair (key, element) once as "key: element",
\* the elements of one key in their order
C20_OneEntryPerElementMessageJoined ==
    resp # NoResponse =>
        /\ shopifyError.Errors.kind = "array" =>
              /\ respErr.Errors = shopifyError.Errors.elems
              /\ respErr.Message = Join(respErr.Errors, ", ")
        /\ (shopifyError.Errors.kind = "object"
            /\ ArraysOnly(shopifyError.Errors.fields)) =>
              OneEntryPerPair(respErr.Errors, shopifyError.Errors.fields)

\* C20 amended: the same, but for a response of status 406 the message is
\* the status text "Not Acceptable" and not the entries joined
C20_OneEntryPerElement ==
    resp # NoResponse =>
        /\ shopifyError.Errors.kind = "array" =>
              /\ respErr.Errors = shopifyError.Errors.elems
              /\ respErr.Message =
                    IF resp.StatusCode = StatusNotAcceptable THEN "Not Acceptable"
                    ELSE Join(respErr.Errors, ", ")
        /\ (shopifyError.Errors.kind = "object"
            /\ ArraysOnly(shopifyError.Errors.fields)) =>
              OneEntryPerPair(respErr.Errors, shopifyError.Errors.fields)

C20_Witness ==
    /\ resp.StatusCode = 404
    /\ shopifyError.Errors.kind = "object"
    /\ respErr.Errors = <<"body: is too long", "body: is invalid",
                          "title: is invalid", "title: is invalid">>
    /\ respErr.Message = "body: is too long"

\* the step is a logical call that ended in NewRequest
NoRequestStep == Len(trace') = 1 /\ trace'[1].ev = "norequest"

\* C15 as stated: after a call in which a response was received, the
\* rate-limit state holds the values of the headers of the last response,
\* whether the call ended in success or in a classified error
C15_RateLimitsOfLastResponse ==
    (pc = "done" /\ resp # NoResponse) =>
        /\ resp.RetryAfter = <<>> => RateLimits.RetryAfterSeconds = 0
        /\ resp.RetryAfter = <<"2">> => RateLimits.RetryAfterSeconds = 2000
        /\ resp.RetryAfter = <<"2", ".", "5">> => RateLimits.RetryAfterSeconds = 2500
        /\ resp.CallLimit = <<"1", "/", "4", "0">> =>
              (RateLimits.RequestCount = 1 /\ RateLimits.BucketSize = 40)

\* C15 amended: a call that ends in success (a 2xx response whose body
\* was decoded) leaves in the rate-limit state the values of the headers of
\* that response: the seconds of Retry-After, 0 when it is absent, and the
\* two numbers of a call-limit header of the form N/M, the old numbers when
\* the header is absent; every other attempt, classified error or body
\* that does not decode, leaves the rate-limit state as it was
C15_RateLimitsOfLastSuccess ==
    [][ResponseStep =>
          IF pc' = "done" /\ ret'.err = Nil
          THEN /\ resp'.RetryAfter = <<>> => RateLimits'.RetryAfterSeconds = 0
               /\ resp'.RetryAfter = <<"2", ".", "5">> =>
                     RateLimits'.RetryAfterSeconds = 2500
               /\ resp'.CallLimit = <<"1", "/", "4", "0">> =>
                     (RateLimits'.RequestCount = 1 /\ RateLimits'.BucketSize = 40)
               /\ resp'.CallLimit = <<>> =>
                     /\ RateLimits'.RequestCount = RateLimits.RequestCount
                     /\ RateLimits'.BucketSize = RateLimits.BucketSize
          ELSE RateLimits' = RateLimits]_vars

C15_Witness ==
    /\ pc = "done"
    /\ ret.err = Nil
    /\ Sends = 2
    /\ resp.RetryAfter = <<>>
    /\ resp.CallLimit = <<>>
    /\ RateLimits.RetryAfterSeconds = 0
    /\ RateLimits.RequestCount = 1
    /\ RateLimits.BucketSize = 40

\* C16: once the API version differs from the default, by WithVersion or by
\* the latch, no step changes it; a client that has the default version
\* takes the version of the first 2xx response that carries a version
\* header, and keeps the default until then
C16_VersionLatchedOnce ==
    /\ [][apiVersion # defaultApiVersion => apiVersion' = apiVersion]_vars
    /\ [][apiVersion = defaultApiVersion =>
             IF ResponseStep /\ ~IsErrorStatus(resp'.StatusCode)
                /\ resp'.ApiVersion # ""
             THEN apiVersion' = resp'.ApiVersion
             ELSE apiVersion' = defaultApiVersion]_vars

C16_Witness ==
    /\ pc = "done"
    /\ ret.err = Nil
    /\ apiVersion = "2023-01"
    /\ resp.ApiVersion = "2023-04"

\* C18: a logical call whose request cannot be built returns the error of
\* NewRequest; no request is sent and no sleep made, and the attempt
\* counter, the rate-limit state and the API version are left as they were
C18_NoRequestLeavesClientUnchanged ==
    [][NoRequestStep =>
          /\ pc' = "done"
          /\ ret'.returned /\ ~ret'.headers
          /\ ret'.err = PlainError(trace'[1].kind)
          /\ trace'[1].kind \in NewRequestErrors
          /\ attempts' = attempts
          /\ RateLimits' = RateLimits
          /\ apiVersion' = apiVersion]_vars

C18_Witness ==
    /\ pc = "done"
    /\ Len(trace) = 1 /\ trace[1].ev = "norequest"
    /\ ret.err.Message = "json: unsupported type"
    /\ attempts = 2
    /\ RateLimits.BucketSize = 40
    /\ apiVersion = "2023-04"

\* the payout service returned after an error response with an empty body
ReturnedOnEmptyErrorResponse ==
    /\ payoutList.pc = "done"
    /\ resp # NoResponse
    /\ IsErrorStatus(resp.StatusCode)
    /\ resp.Body = ""

\* C21 as stated: an error response with an empty body gives an API error
\* with the status, an empty message, an empty list and the text "Unknown
\* Error", and the service returns no payouts.  A 406 violates it.
C21_EmptyBodyIsUnknownError ==
    ReturnedOnEmptyErrorResponse =>
        /\ payoutList.err.kind \in {"ResponseError", "RateLimitError"}
        /\ payoutList.err.Status = resp.StatusCode
        /\ payoutList.err.Message = ""
        /\ payoutList.err.Errors = <<>>
        /\ Error(payoutList.err) = "Unknown Error"
        /\ payoutList.payouts = <<>>

\* C21 amended: an error response with an empty body and a status other
\* than 406 gives an API error with the status, an empty message, an empty
\* list and the text "Unknown Error", for a 429 wrapped as a rate-limit
\* error with the whole seconds of Retry-After; a 406 gives the message and
\* the text "Not Acceptable"; in both cases the service returns no payouts
\* and no pagination.
C21_EmptyBodyIsUnknownErrorUnless406 ==
    ReturnedOnEmptyErrorResponse =>
        /\ payoutList.err.Status = resp.StatusCode
        /\ payoutList.err.Errors = <<>>
        /\ payoutList.err.Body = ""
        /\ IF resp.StatusCode = StatusNotAcceptable
           THEN /\ payoutList.err.kind = "ResponseError"
                /\ payoutList.err.Message = "Not Acceptable"
                /\ Error(payoutList.err) = "Not Acceptable"
           ELSE /\ payoutList.err.Message = ""
                /\ Error(payoutList.err) = "Unknown Error"
                /\ IF resp.StatusCode = StatusTooManyRequests
                   THEN /\ payoutList.err.kind = "RateLimitError"
                        /\ payoutList.err.RetryAfter = RetryAfterSeconds(resp.RetryAfter)
                   ELSE /\ payoutList.err.kind = "ResponseError"
                        /\ payoutList.err.RetryAfter = 0
        /\ payoutList.payouts = <<>>
        /\ payoutList.pagination = NilPtr

\* the service returned after a 500 with an empty body, the case of
\* TestPayoutListError
C21_Witness ==
    /\ ReturnedOnEmptyErrorResponse
    /\ resp.StatusCode = 500
    /\ Error(payoutList.err) = "Unknown Error"
    /\ payoutList.payouts = <<>>

\* ListWithPagination returned after the call of the client succeeded
ListReturnedOnSuccess == payoutList.pc = "done" /\ ret.err = Nil
\* the header has an entry with the relation rel
HasRel(h, rel) == \E i \in DOMAIN h : h[i].link /\ h[i].rel = rel

\* C22: when the extraction succeeds the pagination is not nil, its
\* NextPageOptions is present exactly when the header has an entry with
\* rel="next" and its PreviousPageOptions exactly when it has one with
\* rel="previous"; the empty header gives no error and both absent.
C22_OptionsPresentIffRelInHeader ==
    ListReturnedOnSuccess =>
        /\ payoutList.err = Nil =>
              /\ payoutList.pagination # NilPtr
              /\ payoutList.pagination[1].NextPageOptions # NilPtr
                    <=> HasRel(payoutList.linkHeader, "next")
              /\ payoutList.pagination[1].PreviousPageOptions # NilPtr
                    <=> HasRel(payoutList.linkHeader, "previous")
        /\ LinkHeaderText(payoutList.linkHeader) = "" =>
              /\ payoutList.err = Nil
              /\ payoutList.pagination = Ptr(Pagination(NilPtr, NilPtr))

\* a header with a next and a previous link was extracted
C22_Witness ==
    /\ ListReturnedOnSuccess
    /\ Len(payoutList.linkHeader) = 2
    /\ payoutList.linkHeader[2].rel = "previous"
    /\ payoutList.err = Nil
    /\ payoutList.pagination =
          Ptr(Pagination(Ptr(ListOptions("foo", 2)), Ptr(ListOptions("bar", 0))))
    /\ payoutList.payouts = <<1, 2>>

\* the checks of an entry of a Link header, read off the entry
FailsPattern(l) == ~l.link \/ l.rel \notin {"previous", "next"}
FailsURL(l) == l.url.Scheme = ""
FailsQuery(l) == \E i \in DOMAIN l.url.RawQuery : ~l.url.RawQuery[i].escapes
FailsPageInfo(l) ==
    ~\E i \in DOMAIN l.url.RawQuery :
        /\ l.url.RawQuery[i].key = "page_info"
        /\ l.url.RawQuery[i].value # <<>>
FailsLimit(l) ==
    \E i \in DOMAIN l.url.RawQuery :
        /\ l.url.RawQuery[i].key = "limit"
        /\ l.url.RawQuery[i].value # <<>>
        /\ ~AllDigits(l.url.RawQuery[i].value)
\* the error of the first check the entry fails, or nil; withQuery tells
\* whether the parsing of the query is one of the checks
FirstFailure(l, withQuery) ==
    IF FailsPattern(l)
    THEN ResponseDecodingError("", "could not extract pagination link header", 0)
    ELSE IF FailsURL(l)
    THEN ResponseDecodingError("", "pagination does not contain a valid URL", 0)
    ELSE IF withQuery /\ FailsQuery(l) THEN PlainError("invalid URL escape \"%in\"")
    ELSE IF FailsPageInfo(l) THEN ResponseDecodingError("", "page_info is missing", 0)
    ELSE IF FailsLimit(l)
    THEN PlainError("strconv.Atoi: parsing \"x\": invalid syntax")
    ELSE Nil
\* the entries of the header that fail a check
Failing(h) == {i \in DOMAIN h : FirstFailure(h[i], TRUE) # Nil}
FirstFailing(h) == CHOOSE i \in Failing(h) : \A j \in Failing(h) : i <= j
\* ListWithPagination read a header that is not empty and has an entry that
\* fails a check
ListReturnedOnFailingEntry ==
    /\ ListReturnedOnSuccess
    /\ LinkHeaderText(payoutList.linkHeader) # ""
    /\ Failing(payoutList.linkHeader) # {}

\* C23 as stated: the error is that of the first failing check in the order
\* pattern, URL, page_info, limit.  An entry whose query does not parse
\* violates it.
C23_FirstFailingCheckOfFour ==
    ListReturnedOnFailingEntry =>
        /\ payoutList.err =
              FirstFailure(payoutList.linkHeader[FirstFailing(payoutList.linkHeader)],
                           FALSE)
        /\ payoutList.pagination = NilPtr
        /\ payoutList.payouts = <<>>

\* C23 amended: when an entry of a header that is not empty fails a check,
\* no pagination and no payouts are returned, and the error is that of the
\* first failing check of the first failing entry, in the order: pattern,
\* URL, query of the URL (the error of url.ParseQuery), page_info, limit.
C23_FirstFailingCheckOfFive ==
    ListReturnedOnFailingEntry =>
        /\ payoutList.err =
              FirstFailure(payoutList.linkHeader[FirstFailing(payoutList.linkHeader)],
                           TRUE)
        /\ payoutList.pagination = NilPtr
        /\ payoutList.payouts = <<>>

\* a valid link followed by one without page_info
C23_Witness ==
    /\ ListReturnedOnFailingEntry
    /\ Len(payoutList.linkHeader) = 2
    /\ FirstFailing(payoutList.linkHeader) = 2
    /\ payoutList.err.Message = "page_info is missing"
    /\ payoutList.pagination = NilPtr
    /\ resp.Body = "{\"payouts\":[{\"id\":1},{\"id\":2}]}"

\* ------------------------------------------ properties of the path prefix
\* the version has the form YYYY-MM
IsYearMonth(chars) ==
    /\ Len(chars) = 7
    /\ chars[5] = "-"
    /\ \A i \in (1 .. 7) \ {5} : chars[i] \in {Digits[k] : k \in 1 .. 10}
\* the client was constructed with the option o: WithVersion stores the
\* version it is given, and without the option the version is the default
ConstructedWith(o) ==
    IF o = <<>> THEN apiVersion = defaultApiVersion ELSE apiVersion = Concat(o[1])

\* C24: the path prefix is admin/api/<v> exactly when the client was
\* constructed with WithVersion(v) for a v of the form YYYY-MM or equal to
\* "unstable"; with an empty or malformed version and without the option it
\* is admin.
C24_PrefixNamesWellFormedVersion ==
    \A o \in RequestVersionOptions :
        ConstructedWith(o) =>
            IF o # <<>> /\ (IsYearMonth(o[1]) \/ Concat(o[1]) = "unstable")
            THEN pathPrefix = <<"admin", "api", Concat(o[1])>>
            ELSE pathPrefix = <<"admin">>

\* a client constructed with WithVersion("9999-99b") built a request under
\* admin
C24_Witness ==
    /\ apiVersion = "9999-99b"
    /\ pathPrefix = <<"admin">>
    /\ req.built
    /\ req.path = <<"admin", "orders.json">>

\* ------------------------------------------------ properties of the delays
\* the waits of Query
QuerySleeps == {i \in DOMAIN queryTrace : queryTrace[i].ev = "sleep"}

\* C25: every wait of a call, in the retry loop of doGetHeaders and in
\* Query, is made by the delay function of the client.
C25_EveryDelayByClientSleep ==
    /\ \A i \in Events("sleep") : trace[i].kind = "c.sleep"
    /\ \A i \in QuerySleeps : queryTrace[i].kind = "c.sleep"

\* ------------------------------------------ properties of concurrent calls
\* Query has accumulated the counter of its latest round
QueryAccumulated == race["query"].pc \in {"write", "reset", "done"}

\* C26: the count a call reads is the number of its own attempts as long as
\* the other goroutine wrote nothing to the counter during the call (Query
\* after it accumulated, the REST call after its increment); with the other
\* goroutine writing, a state is reachable where Query's count is not the
\* number of its own attempts and its retry decision is taken on it.
C26_CountIsOwnUnlessRaced ==
    /\ (QueryAccumulated /\ ~race["query"].raced) =>
          race["query"].local = race["query"].own
    /\ (race["get"].pc = "do" /\ ~race["get"].raced) =>
          attempts = race["get"].own

\* Query sent one request, counted an attempt of the other call as its own
\* and gave up on the throttled answer with budget left
C26_Witness ==
    /\ race["query"].pc = "done"
    /\ race["query"].raced
    /\ race["query"].own = 1
    /\ race["query"].local > race["query"].own
    /\ race["query"].own < cRetries
    /\ race["query"].err.kind = "RateLimitError"
    /\ race["get"].own >= 1

\* the goroutine g enters doGetHeaders in this step
EntersLoop(g) == race[g].pc = "reset" /\ race'[g].pc = "load"

\* C27: no step changes the configured retry count, and every call enters
\* its retry loop with that count as its budget, whatever earlier calls and
\* the call of the other goroutine have used up.
C27_CallStartsWithConfiguredBudget ==
    [][/\ cRetries' = cRetries
       /\ \A g \in Goroutines : EntersLoop(g) => race'[g].retries = cRetries]_vars

\* the second Post of Query starts with the whole budget after its first
\* Post and the other call have used up a retry each
C27_Witness ==
    /\ race["query"].pc = "load"
    /\ race["query"].own = 2
    /\ race["query"].local = 1
    /\ race["query"].retries = cRetries
    /\ race["get"].pc = "load"
    /\ race["get"].retries < cRetries

\* ------------------------------------------ properties of Query's rounds
\* the rounds Query has started: the Posts that returned and the one under
\* way
Rounds ==
    Cardinality({i \in DOMAIN queryTrace : queryTrace[i].ev = "post"})
    + (IF queryPc = "post" THEN 1 ELSE 0)

\* C28: a Query that was entered returns; it goes into a new round only
\* with an accumulated attempt count below the retry limit; and it starts
\* at most max(1, N) rounds.
C28_QueryTerminatesWithinLimit ==
    /\ (queryPc = "round") ~> (queryPc = "done")
    /\ [][(QueryRoundStep /\ queryPc' = "round") => queryAttempts' < cRetries]_vars
    /\ [](Rounds <= Max(1, cRetries))

\* a Query with the limit MaxRetries returned after MaxRetries rounds that
\* were all answered by a throttled error
C28_Witness ==
    /\ queryPc = "done"
    /\ cRetries = MaxRetries
    /\ Rounds = MaxRetries
    /\ queryAttempts = MaxRetries
    /\ queryRet.err.kind = "RateLimitError"

\* ---------------------------------------- properties of reading the error
\* the step is a call of Error() on the error Query returned
ErrorStep == queryPc = "done" /\ queryPc' = "done" /\ errorText' # ""

\* C29: a call of Error() leaves the list of the error as it was, the same
\* elements in the same order.
C29_ErrorLeavesErrorsUnchanged ==
    [][ErrorStep => queryRet'.err.Errors = queryRet.err.Errors]_vars

\* ------------------------------------------- properties of the latch frame
\* C30: the step that latches the version changes, of the configuration of
\* the client, the recorded version only; the path prefix, the retry count,
\* the token and the password stay as NewClient set them, and the requests
\* built afterwards are joined to that prefix.
C30_LatchChangesVersionOnly ==
    [][/\ pathPrefix' = pathPrefix
       /\ cRetries' = cRetries
       /\ token' = token
       /\ password' = password
       /\ (req' # req /\ req'.built) =>
             req'.path = ResolveReference(PathJoin(pathPrefix, TrimLeft(req'.relPath)))]_vars

\* a client constructed without a version latched 2023-01 and then built a
\* request under admin
C30_Witness ==
    /\ apiVersion = "2023-01"
    /\ resp.ApiVersion = "2023-01"
    /\ pathPrefix = <<"admin">>
    /\ req.built
    /\ req.path = <<"admin", "orders.json">>

====
